---- MODULE Spec2Model ----
(***************************************************************************)
(* timeclip: the activity and time-accrual engine.                         *)
(*                                                                         *)
(*   internal/database/sqlite.go          DB (the daily_time table)        *)
(*   internal/tracker/activity_detector.go ActivityDetector (tick, pause)  *)
(*   internal/tracker (Timer, Monitor)    ForceIncrement, the probe        *)
(*   internal/api/autolog.go              AutoLogger (queue and worker)    *)
(*                                                                         *)
(* Every handler that runs under a lock is one action.  time.Now() is the  *)
(* variable today; a handler that reads the clock several times may see    *)
(* midnight pass between two reads.  Every SQL statement may fail: a       *)
(* handler takes the statement that fails as an input (Faults).            *)
(***************************************************************************)
EXTENDS Integers, Sequences, FiniteSets, TLC

\* ------------------------------------------------------------------ bounds
\* Calendar days the model runs through: 1..MaxDay.
MaxDay == 2
\* Ticks and forced increments stop once a day's record holds this many minutes.
MaxMinutes == 2
\* The configured auto-log threshold in minutes (AutoLogThresholdHours * 60).
ThresholdMinutes == 1
\* Jobs the model lets wait in logChan (the channel itself holds LogChanCap).
MaxQueue == 1
\* created[d] counts accepted time entries up to this value and then saturates.
MaxCreated == 2
\* The ticks of a counted run.
MaxTicks == 60
\* The seconds the clock of updated_at runs through: 0..MaxClock.
MaxClock == 2
\* The auto_logged rows of system_events counted for a date.
MaxEvents == 3
\* The callbacks registered with the monitor.
MaxObservers == 2
\* The processes started on the machine, and the inodes a lock file can occupy.
MaxProcs == 2
MaxInodes == 3
\* The entries handed out that a specification follows.
MaxHanded == 3
\* The goal_time_hours a configuration can hold: 1..MaxGoalHours.
MaxGoalHours == 9
MaxHalfMinutes == 4

\* ------------------------------------------------------- program constants
\* make(chan *LogRequest, 100)
LogChanCap == 100
\* INSERT ... VALUES (?, 0, 480, FALSE, FALSE)
DefaultGoalMinutes == 480
\* DefaultConfig: goal_time_hours = 8.
DefaultGoalHours == 8

Dates == 1..MaxDay

\* A missing row of daily_time, and a nil *DailyTimeEntry.
NoRow == [absent |-> TRUE]
Nil == [nil |-> TRUE]

\* The SQL statement of a handler that fails, "none" when every statement succeeds.
Faults == {"none", "select", "insert", "selectid", "update"}

\* AutoLogResponse values: empty until marked, then the note markAsLogged wrote.
MsgNote == "Time entry created successfully"
BodyNote == "body"

VARIABLES
    today,         \* time.Now().Format("2006-01-02")
    db,            \* daily_time: date -> row, or NoRow
    currentEntry,  \* ActivityDetector.currentEntry (Nil before Start)
    isTracking,    \* ActivityDetector.isTracking
    currentState,  \* Monitor.currentState
    monitorRunning,\* Monitor.isRunning
    config,        \* AutoLogger.config: the preferred provider and the enabled ones
    apis,          \* AutoLogger.apis: the names of the initialised clients
    logChan,       \* AutoLogger.logChan
    alRunning,     \* AutoLogger.isRunning: processLoop has been started
    worker,        \* processLoop's position inside processLogRequest
    created,       \* history: date -> successful CreateTimeEntry calls (saturating)
    ticks,         \* history: the ticks counted so far, and those taken while unpaused
    calls,         \* the database calls in progress: caller -> position and locals
    meta,          \* the clock of CURRENT_TIMESTAMP, and updated_at and the auto_logged
                   \* rows of system_events by date, where a specification follows them
    callbacks,     \* Monitor.callbacks: how many observers are registered
    lastJob,       \* history: the date of the worker's latest job, the backend it called
                   \* first, and how it ended (Nil before the first call)
    stopChan,      \* the stopChan of the Monitor, the ActivityDetector and the
                   \* AutoLogger: "open" or "closed"
    observers,     \* ActivityDetector.stateChangeCallbacks: how many are registered
    handed,        \* the entries handed to observers (one goroutine each) and to
                   \* callers of GetCurrentEntry, in the order they were handed out
    salRunning,    \* SimpleAutoLogger.isRunning
    lockPath,      \* timeclip.lock: the inode the path names, 0 when there is no file
    flocks,        \* inode -> the process holding its flock, 0 when none
    procs,         \* process -> its position in TryLock / Release and its descriptors
    goroutines,    \* goroutine -> the lock steps left of its call, and the mutexes it holds
    lastOp         \* history: the handler that ran last and whether it hit an error

vars == <<today, db, currentEntry, isTracking, currentState, monitorRunning,
          config, apis, logChan, alRunning, worker, created, ticks, calls,
          meta, callbacks, lastJob, stopChan, observers, handed,
          lockPath, flocks, procs, goroutines, salRunning, lastOp>>

\* The variables of the AutoLogger, and those of the tracker.
alVars == <<config, apis, logChan, alRunning, worker, created>>
trackerVars == <<currentEntry, isTracking, currentState, monitorRunning>>
obsVars == <<observers, handed>>
lockVars == <<lockPath, flocks, procs, goroutines>>
auxVars == <<meta, callbacks, lastJob, stopChan, obsVars, lockVars, salRunning>>
sideVars == <<ticks, calls, auxVars>>
quietVars == <<meta, callbacks, lastJob, obsVars, lockVars, salRunning>>
stillVars == <<meta, callbacks, lastJob, stopChan, observers, lockVars, salRunning>>

\* ------------------------------------------------------------ models.DailyTimeEntry
\* The row of `date` as the entry a SELECT scans it into.
EntryOf(d, date) ==
    [date |-> date, minutes |-> d[date].minutes, goal |-> d[date].goal,
     paused |-> d[date].paused, autoLogged |-> d[date].autoLogged,
     response |-> d[date].response]

\* INSERT INTO daily_time (date, active_minutes, goal_minutes, is_paused, auto_logged)
\* VALUES (?, 0, 480, FALSE, FALSE); auto_log_response DEFAULT ''.
NewRow ==
    [minutes |-> 0, goal |-> DefaultGoalMinutes, paused |-> FALSE,
     autoLogged |-> FALSE, response |-> ""]

\* active_minutes of `date`, 0 while the date has no row.
Minutes(d, date) == IF d[date] = NoRow THEN 0 ELSE d[date].minutes

\* ------------------------------------------------------------ database.DB
\* Each operation returns the table after it, whether it returned an error, and
\* (for the getters) the entry it returned.

\* createEntryForDate: INSERT, then GetEntryByID of the new row.
createEntryForDate(d, date, fault) ==
    IF fault = "insert"
    THEN [db |-> d, err |-> TRUE, entry |-> Nil]
    ELSE LET d2 == [d EXCEPT ![date] = NewRow]
         IN  IF fault = "selectid"
             THEN [db |-> d2, err |-> TRUE, entry |-> Nil]
             ELSE [db |-> d2, err |-> FALSE, entry |-> EntryOf(d2, date)]

\* GetEntryForDate: SELECT ... WHERE date = ?; on sql.ErrNoRows create the row.
GetEntryForDate(d, date, fault) ==
    IF fault = "select"
    THEN [db |-> d, err |-> TRUE, entry |-> Nil]
    ELSE IF d[date] # NoRow
         THEN [db |-> d, err |-> FALSE, entry |-> EntryOf(d, date)]
         ELSE createEntryForDate(d, date, fault)

\* A variant whose UPDATE has no "AND is_paused = FALSE".
IncrementActiveTimeForDate_NoPauseGuard(d, date, fault) ==
    LET g == GetEntryForDate(d, date, fault)
    IN  IF g.err \/ fault = "update"
        THEN [db |-> g.db, err |-> TRUE]
        ELSE [db |-> [g.db EXCEPT ![date].minutes = @ + 1], err |-> FALSE]

\* IncrementActiveTimeForDate: ensure the row, then
\* UPDATE ... SET active_minutes = active_minutes + 1 WHERE date = ? AND is_paused = FALSE.
\* No row affected (paused) is logged and is not an error.
IncrementActiveTimeForDate(d, date, fault) ==
    LET g == GetEntryForDate(d, date, fault)
    IN  IF g.err
        THEN [db |-> g.db, err |-> TRUE]
        ELSE IF fault = "update"
             THEN [db |-> g.db, err |-> TRUE]
             ELSE IF g.db[date].paused
                  THEN [db |-> g.db, err |-> FALSE]
                  ELSE [db |-> [g.db EXCEPT ![date].minutes = @ + 1], err |-> FALSE]

\* A variant that persists a pause and not a resume.
SetPauseStateForDate_NeverResumes(d, date, paused, fault) ==
    LET g == GetEntryForDate(d, date, fault)
    IN  IF g.err \/ fault = "update"
        THEN [db |-> g.db, err |-> TRUE]
        ELSE [db |-> [g.db EXCEPT ![date].paused = @ \/ paused], err |-> FALSE]

\* A variant that writes the flag with REPLACE INTO daily_time (date, is_paused): the
\* other columns fall back to their defaults.
SetPauseStateForDate_Replace(d, date, paused, fault) ==
    LET g == GetEntryForDate(d, date, fault)
    IN  IF g.err \/ fault = "update"
        THEN [db |-> g.db, err |-> TRUE]
        ELSE [db |-> [g.db EXCEPT ![date] = [NewRow EXCEPT !.paused = paused]], err |-> FALSE]

\* SetPauseStateForDate: ensure the row, then UPDATE ... SET is_paused = ? WHERE date = ?.
SetPauseStateForDate(d, date, paused, fault) ==
    LET g == GetEntryForDate(d, date, fault)
    IN  IF g.err
        THEN [db |-> g.db, err |-> TRUE]
        ELSE IF fault = "update"
             THEN [db |-> g.db, err |-> TRUE]
             ELSE [db |-> [g.db EXCEPT ![date].paused = paused], err |-> FALSE]

\* A variant that flips the flag: UPDATE ... SET auto_logged = NOT auto_logged.
MarkAsAutoLogged_Flips(d, date, response, fault) ==
    IF fault = "update"
    THEN [db |-> d, err |-> TRUE]
    ELSE IF d[date] = NoRow
         THEN [db |-> d, err |-> FALSE]
         ELSE [db |-> [d EXCEPT ![date].autoLogged = ~@, ![date].response = response],
               err |-> FALSE]

\* MarkAsAutoLogged: UPDATE ... SET auto_logged = TRUE, auto_log_response = ? WHERE date = ?.
MarkAsAutoLogged(d, date, response, fault) ==
    IF fault = "update"
    THEN [db |-> d, err |-> TRUE]
    ELSE IF d[date] = NoRow
         THEN [db |-> d, err |-> FALSE]
         ELSE [db |-> [d EXCEPT ![date].autoLogged = TRUE, ![date].response = response],
               err |-> FALSE]

\* ------------------------------------------------------------ tracker.Monitor
\* A variant that leaves the screensaver out of the composite.
SystemState_IgnoresSaver(session, saver, lid) ==
    [session |-> session, saver |-> saver, lid |-> lid, active |-> session /\ lid]

\* checkSystemState: the three signals and the composite.
SystemState(session, saver, lid) ==
    [session |-> session, saver |-> saver, lid |-> lid,
     active |-> session /\ lid /\ ~saver]

\* What the engine specifications let the probe read: working, and screensaver on.
Readings == {SystemState(TRUE, FALSE, TRUE), SystemState(TRUE, TRUE, TRUE)}

\* ------------------------------------------------------------ Init
\* Who calls the database: the tick goroutine and the pause handlers (both under the
\* detector's mutex), and Timer.ForceIncrement (under no lock).
Callers == {"tick", "pause", "force"}
Idle == [pc |-> "idle"]

\* The processes that run timeclip on one machine, and the inodes the lock file can
\* be: an inode is free while the path does not name it and no process has it open.
Procs == 1..MaxProcs
Inodes == 1..MaxInodes

\* The goroutines of the engine: the application's caller, trackingLoop, monitorLoop,
\* the `go callback(oldState, newState)` of the monitor, and two observers started
\* by notifyStateChange; and two of SimpleAutoLogger's `go sal.logEntry(entry)`.
Goroutines ==
    {"app", "tick", "poll", "change", "observer1", "observer2", "logEntry1", "logEntry2"}

\* NewLock: lockFile is nil; no call is in progress and no descriptor is open.
NoLock == [pc |-> "idle", fd |-> 0, lockFile |-> 0]

\* NewMonitor: every field of the first snapshot has its zero value.
NewMonitorState == [session |-> FALSE, saver |-> FALSE, lid |-> FALSE, active |-> FALSE]

\* A configuration that prefers magnetic and has both backends enabled and keyed.
TwoBackendConfig ==
    [preferred |-> "magnetic", enabled |-> {"magnetic", "clockify"},
     goalHours |-> DefaultGoalHours,
     thresholdHours |-> [num |-> ThresholdMinutes, den |-> 60]]

\* The state after NewDB, NewMonitor, NewActivityDetector and NewAutoLogger(db, c).
InitConfig(c) ==
    /\ today = 1
    /\ db = [date \in Dates |-> NoRow]
    /\ currentEntry = Nil
    /\ isTracking = FALSE
    /\ currentState = NewMonitorState
    /\ monitorRunning = FALSE
    /\ config = c
    /\ apis = {}
    /\ logChan = <<>>
    /\ alRunning = FALSE
    /\ worker = [pc |-> "idle"]
    /\ created = [date \in Dates |-> 0]
    /\ ticks = [all |-> 0, unpaused |-> 0]
    /\ calls = [p \in Callers |-> Idle]
    /\ meta = [now |-> 0, updatedAt |-> [date \in Dates |-> 0],
               events |-> [date \in Dates |-> 0]]
    /\ callbacks = 0
    /\ lastJob = Nil
    /\ stopChan = [monitor |-> "open", detector |-> "open", logger |-> "open"]
    /\ observers = 0
    /\ handed = <<>>
    /\ salRunning = FALSE
    /\ lockPath = 0
    /\ flocks = [i \in Inodes |-> 0]
    /\ procs = [p \in Procs |-> NoLock]
    /\ goroutines = [g \in Goroutines |-> [prog |-> <<>>, held |-> {}]]
    /\ lastOp = [op |-> "init", err |-> FALSE, arg |-> Nil]

Init == InitConfig(TwoBackendConfig)

\* ------------------------------------------------------------ api.AutoLogger (queue)
\* al.thresholdHours = config.General.AutoLogThresholdHours, as the fraction num/den
\* of an hour.
thresholdHours == config.thresholdHours

\* A variant that forgets the AutoLogged flag.
ShouldAutoLog_IgnoresLogged(entry) ==
    IF entry = Nil THEN FALSE
    ELSE entry.minutes * thresholdHours.den >= 60 * thresholdHours.num

\* A variant that fires only at the crossing: the minutes equal the threshold.
ShouldAutoLog_AtCrossing(entry) ==
    IF entry = Nil THEN FALSE
    ELSE IF entry.autoLogged THEN FALSE
    ELSE entry.minutes * thresholdHours.den = 60 * thresholdHours.num

\* A variant that waits for the minutes to exceed the threshold.
ShouldAutoLog_Exceeds(entry) ==
    IF entry = Nil THEN FALSE
    ELSE IF entry.autoLogged THEN FALSE
    ELSE entry.minutes * thresholdHours.den > 60 * thresholdHours.num

\* ShouldAutoLog: not nil, not yet auto-logged, and
\* float64(entry.ActiveMinutes) / 60.0 >= al.thresholdHours.
ShouldAutoLog(entry) ==
    IF entry = Nil THEN FALSE
    ELSE IF entry.autoLogged THEN FALSE
    ELSE entry.minutes * thresholdHours.den >= 60 * thresholdHours.num

\* A LogRequest (its description is derived from the date and decides nothing).
LogRequest(entry, force) == [entry |-> entry, force |-> force]

\* A variant whose queue has no capacity limit.
Send_Unbounded(q, request) == Append(q, request)

\* select { case al.logChan <- request: ... default: (queue full, dropped) }
Send(q, request) == IF Len(q) < LogChanCap THEN Append(q, request) ELSE q

\* CheckAndLog: the queue after the call.
checkAndLog(q, entry) ==
    IF ~ShouldAutoLog(entry) THEN q ELSE Send(q, LogRequest(entry, FALSE))

\* ------------------------------------------------------------ tracker.ActivityDetector
\* lastOp: the handler, whether it ended on an error, and the date, minutes and
\* AutoLogged flag of the entry it was called with or handed to its observers (Nil
\* when there is none).
Done(op, err) == [op |-> op, err |-> err, arg |-> Nil]
DoneWith(op, err, entry) ==
    [op |-> op, err |-> err,
     arg |-> IF entry = Nil THEN Nil
             ELSE [date |-> entry.date, minutes |-> entry.minutes,
                   autoLogged |-> entry.autoLogged]]

\* An entry handed out: to an observer (1..observers) in a goroutine that has run or
\* not, or to a caller (0); live while it is the very object ad.currentEntry points to.
Handout(to, entry, live, run) == [to |-> to, entry |-> entry, live |-> live, run |-> run]

\* ad.currentEntry = entry: the cache points to a new object, and what was handed
\* out before no longer is the cache.
Retire(h) == [i \in 1..Len(h) |-> [h[i] EXCEPT !.live = FALSE]]

\* A write through a pointer to the cached object: every holder of it sees the write.
WriteThrough(h, entry) ==
    [i \in 1..Len(h) |-> IF h[i].live THEN [h[i] EXCEPT !.entry = entry] ELSE h[i]]

\* notifyStateChange: `go callback(isActive, entry)` for each registered callback,
\* entry being the pointer the handler holds (the cached object itself).
notifyStateChange(h, n, entry) ==
    h \o [o \in 1..n |-> Handout(o, entry, TRUE, FALSE)]

\* Start: start the monitor (an error if it is running), then get or create
\* today's entry; only then isTracking is set and the tick loop started.
Start(fault, reading) ==
    /\ ~isTracking
    /\ IF monitorRunning
       THEN /\ lastOp' = Done("Start", TRUE)
            /\ UNCHANGED <<db, currentEntry, isTracking, currentState, monitorRunning,
                           handed>>
       ELSE LET g == GetEntryForDate(db, today, fault)
            IN  /\ monitorRunning' = TRUE
                /\ currentState' = reading
                /\ db' = g.db
                /\ currentEntry' = IF g.err THEN currentEntry ELSE g.entry
                /\ handed' = IF g.err THEN handed ELSE Retire(handed)
                /\ isTracking' = ~g.err
                /\ lastOp' = Done("Start", g.err)
    /\ UNCHANGED <<today, alVars, ticks, calls, stillVars>>

\* Monitor.updateState: one poll replaces the snapshot.
Poll(reading) ==
    /\ monitorRunning
    /\ stopChan.monitor = "open"
    /\ currentState' = reading
    /\ lastOp' = Done("Poll", FALSE)
    /\ UNCHANGED <<today, db, currentEntry, isTracking, monitorRunning, alVars, sideVars>>

\* A variant that ignores the probe: it accrues whenever the entry is not paused.
shouldIncrement_IgnoresProbe(systemState, entry) == ~entry.paused

\* systemState.IsActive && !ad.currentEntry.IsPaused
shouldIncrement(systemState, entry) == systemState.active /\ ~entry.paused

\* A variant that never swaps the cached entry.
dayRollover_Never(d, entry, updated, fault, dNow, dRoll) ==
    [db |-> d, entry |-> entry, updated |-> updated, err |-> FALSE, clock |-> dNow]

\* "Handle day rollover": when the cached entry is not of the date the clock shows,
\* get or create today's entry and make it the cached one.
dayRollover(d, entry, updated, fault, dNow, dRoll) ==
    LET roll == GetEntryForDate(d, dRoll, fault)
    IN  IF entry.date = dNow
        THEN [db |-> d, entry |-> entry, updated |-> updated, err |-> FALSE, clock |-> dNow]
        ELSE IF roll.err
        THEN [db |-> roll.db, entry |-> entry, updated |-> updated, err |-> TRUE,
              clock |-> dRoll]
        ELSE [db |-> roll.db, entry |-> roll.entry, updated |-> updated, err |-> FALSE,
              clock |-> dRoll]

\* processMinuteIncrement.  k and f name the database call (1: increment, 2: reload,
\* 3: rollover fetch) and the statement of it that fails; dInc, dLoad, dNow and dRoll
\* are the dates the four clock reads see.  Returns the table and the cached entry
\* after the tick, the entry handed to the observers as a time update (Nil when the
\* tick did not increment), whether the tick ended on an error, and the last date read.
processMinuteIncrement(d, entry, systemState, k, f, dInc, dLoad, dNow, dRoll) ==
    LET F(i) == IF k = i THEN f ELSE "none"
        should == shouldIncrement(systemState, entry)
        inc == IncrementActiveTimeForDate(d, dInc, F(1))
        rel == GetEntryForDate(inc.db, dLoad, F(2))
    IN  IF should /\ inc.err
        THEN [db |-> inc.db, entry |-> entry, updated |-> Nil, err |-> TRUE, clock |-> dInc]
        ELSE IF should /\ rel.err
        THEN [db |-> rel.db, entry |-> entry, updated |-> Nil, err |-> TRUE, clock |-> dLoad]
        ELSE IF should
        THEN dayRollover(rel.db, rel.entry, rel.entry, F(3), dNow, dRoll)
        ELSE dayRollover(d, entry, Nil, F(3), dNow, dRoll)

\* The dates a handler's clock reads can see: each read today or, once midnight has
\* passed, tomorrow.
ClockReads ==
    {r \in [1..4 -> {t \in Dates : t = today \/ t = today + 1}] :
        \A i \in 1..3 : r[i] <= r[i + 1]}

\* The clock reads of a handler that runs within one day.
SameDay == [i \in 1..4 |-> today]

\* The observer the application registers for time updates: the threshold trigger,
\* CheckAndLog on the entry the tick reloaded (nothing when the tick did not increment).
OnTimeUpdate(q, updated) == IF updated = Nil THEN q ELSE checkAndLog(q, updated)

\* A variant whose loop ends when a tick hits an error.
loopGoesOn_UntilError(tracking, err) == tracking /\ ~err

\* trackingLoop's `for { select { ... } }`: processMinuteIncrement returns nothing,
\* and the loop goes on to the next tick whatever happened in it.
loopGoesOn(tracking, err) == tracking

\* What a tick hands out: after an increment the reloaded entry becomes the cache
\* and goes to the observers; after a rollover the fetched entry does the same.
tickHandouts(h, n, entry, res) ==
    LET timed == IF res.updated = Nil THEN h
                 ELSE notifyStateChange(Retire(h), n, res.updated)
        before == IF res.updated = Nil THEN entry ELSE res.updated
    IN  IF res.entry.date = before.date THEN timed
        ELSE notifyStateChange(Retire(timed), n, res.entry)

\* processMinuteIncrement from its first line to its return, for a tick that
\* trackingLoop has received from the ticker.  With wired, the time update of the
\* tick reaches the threshold trigger before the next tick.
runTick(k, f, r, wired) ==
    /\ wired => Len(logChan) < MaxQueue
    /\ LET res == processMinuteIncrement(db, currentEntry, currentState, k, f,
                                         r[1], r[2], r[3], r[4])
       IN  /\ db' = res.db
           /\ currentEntry' = res.entry
           /\ today' = res.clock
           /\ logChan' = IF wired THEN OnTimeUpdate(logChan, res.updated) ELSE logChan
           /\ handed' = tickHandouts(handed, observers, currentEntry, res)
           /\ isTracking' = loopGoesOn(isTracking, res.err)
           /\ lastOp' = DoneWith("Tick", res.err, res.updated)
    /\ UNCHANGED <<currentState, monitorRunning, config, apis, alRunning,
                   worker, created, stillVars>>

\* trackingLoop's select takes the ticker's case while the detector tracks and
\* its stopChan is open, and runs the tick.
trackingLoop(k, f, r, wired) ==
    /\ isTracking
    /\ stopChan.detector = "open"
    /\ runTick(k, f, r, wired)
    /\ UNCHANGED calls

\* A tick, for as long as the minutes stay within the bound.
Tick(k, f, r, wired) ==
    /\ \A date \in Dates : Minutes(db, date) < MaxMinutes
    /\ trackingLoop(k, f, r, wired)
    /\ UNCHANGED ticks

\* TogglePause: persist the negated cached flag for today's date, then update the cache.
TogglePause(fault) ==
    /\ IF currentEntry = Nil
       THEN /\ lastOp' = Done("TogglePause", TRUE)
            /\ UNCHANGED <<db, currentEntry, handed>>
       ELSE LET newPauseState == ~currentEntry.paused
                s == SetPauseStateForDate(db, today, newPauseState, fault)
            IN  /\ db' = s.db
                /\ currentEntry' = IF s.err THEN currentEntry
                                   ELSE [currentEntry EXCEPT !.paused = newPauseState]
                /\ handed' = IF s.err THEN handed
                              ELSE notifyStateChange(WriteThrough(handed, currentEntry'),
                                                     observers, currentEntry')
                /\ lastOp' = Done("TogglePause", s.err)
    /\ UNCHANGED <<today, isTracking, currentState, monitorRunning, alVars, ticks, calls,
                   stillVars>>

\* SetPause: nothing to do when the cached flag is already as requested.
SetPause(paused, fault) ==
    /\ IF currentEntry = Nil
       THEN /\ lastOp' = Done("SetPause", TRUE)
            /\ UNCHANGED <<db, currentEntry, handed>>
       ELSE IF currentEntry.paused = paused
       THEN /\ lastOp' = Done("SetPause", FALSE)
            /\ UNCHANGED <<db, currentEntry, handed>>
       ELSE LET s == SetPauseStateForDate(db, today, paused, fault)
            IN  /\ db' = s.db
                /\ currentEntry' = IF s.err THEN currentEntry
                                   ELSE [currentEntry EXCEPT !.paused = paused]
                /\ handed' = IF s.err THEN handed
                              ELSE notifyStateChange(WriteThrough(handed, currentEntry'),
                                                     observers, currentEntry')
                /\ lastOp' = Done("SetPause", s.err)
    /\ UNCHANGED <<today, isTracking, currentState, monitorRunning, alVars, ticks, calls,
                   stillVars>>

\* Timer.ForceIncrement: db.IncrementActiveTime() for today's date, outside the
\* detector's lock.
ForceIncrement(fault) ==
    /\ Minutes(db, today) < MaxMinutes
    /\ LET inc == IncrementActiveTimeForDate(db, today, fault)
       IN  /\ db' = inc.db
           /\ lastOp' = Done("ForceIncrement", inc.err)
    /\ UNCHANGED <<today, trackerVars, alVars, sideVars>>

\* The calendar date changes.
Midnight ==
    /\ today < MaxDay
    /\ today' = today + 1
    /\ lastOp' = Done("Midnight", FALSE)
    /\ UNCHANGED <<db, trackerVars, alVars, sideVars>>

\* The accrual state machine alone: probe, ticks, pause, forced increments, midnight.
NextTracker ==
    \/ \E fault \in Faults, reading \in Readings : Start(fault, reading)
    \/ \E reading \in Readings : Poll(reading)
    \/ \E k \in 1..3, f \in Faults, r \in ClockReads : Tick(k, f, r, FALSE)
    \/ \E fault \in Faults : TogglePause(fault)
    \/ \E paused \in BOOLEAN, fault \in Faults : SetPause(paused, fault)
    \/ \E fault \in Faults : ForceIncrement(fault)
    \/ Midnight

SpecTracker == Init /\ [][NextTracker]_vars

\* C5: no step of the accrual engine lowers the minutes of any date or removes a
\* record, and a tick that raises the minutes of a date raises them by exactly one,
\* of that date only, and only when the probe snapshot taken at that tick is active,
\* the cached record is not paused and the persisted record (when there was one) is
\* not paused.
C5_AccrualMonotone ==
    [][\A date \in Dates :
          /\ Minutes(db', date) >= Minutes(db, date)
          /\ db[date] # NoRow => db'[date] # NoRow
          /\ (lastOp'.op = "Tick" /\ Minutes(db', date) > Minutes(db, date)) =>
                /\ Minutes(db', date) = Minutes(db, date) + 1
                /\ \A other \in Dates \ {date} : Minutes(db', other) = Minutes(db, other)
                /\ currentState.active
                /\ ~currentEntry.paused
                /\ db[date] # NoRow => ~db[date].paused]_vars

\* C5 witness: a tick has just accrued a minute on a date that already had some.
C5_Witness ==
    /\ lastOp.op = "Tick"
    /\ lastOp.arg # Nil
    /\ lastOp.arg.minutes = MaxMinutes
    /\ currentState.active

\* C6: a tick taken while the cached record is paused changes the minutes of no
\* date, a tick never changes the minutes of a date whose persisted record is paused,
\* and the persistence increment applied to a paused record of any reachable table
\* reports success and leaves the table as it was.
C6_PausedNoAccrual ==
    [][/\ (lastOp'.op = "Tick" /\ currentEntry.paused) =>
              \A date \in Dates : Minutes(db', date) = Minutes(db, date)
       /\ \A date \in Dates :
              (db[date] # NoRow /\ db[date].paused) =>
                  /\ lastOp'.op = "Tick" => Minutes(db', date) = Minutes(db, date)
                  /\ IncrementActiveTimeForDate(db, date, "none") = [db |-> db, err |-> FALSE]
                  /\ (lastOp'.op = "ForceIncrement" /\ date = today /\ ~lastOp'.err) =>
                        db' = db]_vars

\* C6 witness: a forced increment has just returned success on today's record, which
\* is paused, has minutes, and is the one the detector caches, with the probe active.
C6_Witness ==
    /\ lastOp.op = "ForceIncrement"
    /\ ~lastOp.err
    /\ db[today] # NoRow
    /\ db[today].paused
    /\ db[today].minutes >= 1
    /\ currentEntry # Nil
    /\ currentEntry.paused
    /\ currentEntry.date = today
    /\ currentState.active

\* C8: a tick that ends without an error leaves the cached record dated with the last
\* date its clock read, with a persisted record for that date; and no tick, pause
\* call or forced increment changes the persisted record of a date before the
\* current one.
C8_Rollover ==
    [][/\ (lastOp'.op = "Tick" /\ ~lastOp'.err) =>
              /\ currentEntry'.date = today'
              /\ db'[today'] # NoRow
       /\ lastOp'.op \in {"Tick", "TogglePause", "SetPause", "ForceIncrement"} =>
              \A date \in Dates : date < today => db'[date] = db[date]]_vars

\* C8 witness: after a tick on the second day the cache holds the second day's record
\* while the first day's record keeps the minutes it had accrued.
C8_Witness ==
    /\ lastOp.op = "Tick"
    /\ ~lastOp.err
    /\ today = 2
    /\ currentEntry.date = 2
    /\ db[1] # NoRow
    /\ db[1].minutes >= 1
    /\ db[2] # NoRow

\* ------------------------------------------------------------ one day, probe active
\* The probe's reading while the user is at work: session active, no screen saver,
\* lid open.
ActiveReading == SystemState(TRUE, FALSE, TRUE)

\* A tick of a counted run: persistence succeeds and the day does not change.
CountedTick ==
    /\ ticks.all < MaxTicks
    /\ trackingLoop(1, "none", SameDay, FALSE)
    /\ ticks' = [all |-> ticks.all + 1,
                 unpaused |-> IF currentEntry.paused THEN ticks.unpaused
                              ELSE ticks.unpaused + 1]

\* Ticks interleaved with pause and resume calls within one day, the probe active
\* throughout and persistence succeeding.
NextScenario ==
    \/ Start("none", ActiveReading)
    \/ Poll(ActiveReading)
    \/ CountedTick
    \/ TogglePause("none")
    \/ \E paused \in BOOLEAN : SetPause(paused, "none")

SpecScenario == Init /\ [][NextScenario]_vars

\* C7: in such a run the persisted minutes of the day, and the minutes of the cached
\* record, equal the number of ticks taken while the record was not paused.
C7_AccrualEqualsUnpausedTicks ==
    /\ Minutes(db, today) = ticks.unpaused
    /\ currentEntry # Nil => currentEntry.minutes = ticks.unpaused

\* C7 witness: thirty ticks, ten of them while paused, the record resumed again
\* (twenty minutes); the tick that just ran was an unpaused one.
C7_Witness ==
    /\ lastOp.op = "Tick"
    /\ ticks.all = 30
    /\ ticks.unpaused = 20
    /\ db[today].minutes = 20
    /\ ~db[today].paused

\* ------------------------------------------------------------ markSubmitted, with its timestamps
\* A second passes on the clock behind CURRENT_TIMESTAMP.
ClockSecond ==
    /\ meta.now < MaxClock
    /\ meta' = [meta EXCEPT !.now = @ + 1]
    /\ lastOp' = Done("ClockSecond", FALSE)
    /\ UNCHANGED <<today, db, trackerVars, alVars, ticks, calls, callbacks, lastJob,
                   stopChan, obsVars, lockVars, salRunning>>

\* GetEntryForDate called for a date: the INSERT of a missing row stamps updated_at.
EnsureEntry(date) ==
    /\ LET g == GetEntryForDate(db, date, "none")
       IN  /\ db' = g.db
           /\ meta' = IF db[date] = NoRow
                       THEN [meta EXCEPT !.updatedAt[date] = meta.now]
                       ELSE meta
           /\ lastOp' = DoneWith("GetEntryForDate", g.err, g.entry)
    /\ UNCHANGED <<today, trackerVars, alVars, ticks, calls, callbacks, lastJob,
                   stopChan, obsVars, lockVars, salRunning>>

\* MarkAsAutoLogged called for a date: the UPDATE sets auto_logged, auto_log_response
\* and updated_at = CURRENT_TIMESTAMP; when it did not fail, LogSystemEvent adds an
\* auto_logged row to system_events.  lastOp tells whether the row was already
\* marked with the same response.
MarkSubmitted(date, response, fault) ==
    /\ meta.events[date] < MaxEvents
    /\ LET mark == MarkAsAutoLogged(db, date, response, fault)
           repeat == /\ db[date] # NoRow
                     /\ db[date].autoLogged
                     /\ db[date].response = response
       IN  /\ db' = mark.db
           /\ meta' = IF mark.err THEN meta
                       ELSE [meta EXCEPT !.events[date] = @ + 1,
                                         !.updatedAt[date] =
                                             IF db[date] = NoRow THEN @ ELSE meta.now]
           /\ lastOp' = [op |-> "MarkAsAutoLogged", err |-> mark.err,
                         arg |-> [date |-> date, repeat |-> repeat]]
    /\ UNCHANGED <<today, trackerVars, alVars, ticks, calls, callbacks, lastJob,
                   stopChan, obsVars, lockVars, salRunning>>

\* Marks of today's record with any note at any second.
NextMark ==
    \/ ClockSecond
    \/ EnsureEntry(today)
    \/ \E response \in {MsgNote, BodyNote}, fault \in {"none", "update"} :
            MarkSubmitted(today, response, fault)

SpecMark == Init /\ [][NextMark]_vars

\* C11, as stated: a MarkAsAutoLogged call that succeeds on a record already marked
\* with the same note leaves the whole persisted state as it was: the record with
\* its updated_at, and the system_events rows.
C11_SecondMarkChangesNothing ==
    [][(lastOp'.op = "MarkAsAutoLogged" /\ ~lastOp'.err /\ lastOp'.arg.repeat) =>
          (db' = db /\ meta'.updatedAt = meta.updatedAt /\ meta'.events = meta.events)]_vars

\* C11, amended: such a call leaves every field of the record but updated_at as it
\* was (minutes, goal, paused, auto_logged, auto_log_response), and in every
\* reachable table marking a date twice with a note gives the same rows as marking
\* it once.
C11_SecondMarkSameRecord ==
    [][/\ (lastOp'.op = "MarkAsAutoLogged" /\ ~lastOp'.err /\ lastOp'.arg.repeat) =>
              db' = db
       /\ \A date \in Dates, response \in {MsgNote, BodyNote} :
              LET once == MarkAsAutoLogged(db, date, response, "none")
              IN  MarkAsAutoLogged(once.db, date, response, "none") = once]_vars

\* C11 witness: a date has just been marked a second time with the note it already
\* had, a second after the first mark.
C11_Witness ==
    /\ lastOp.op = "MarkAsAutoLogged"
    /\ ~lastOp.err
    /\ lastOp.arg.repeat
    /\ meta.events[lastOp.arg.date] >= 2
    /\ meta.updatedAt[lastOp.arg.date] >= 1
    /\ db[lastOp.arg.date].autoLogged

\* ------------------------------------------------------------ database calls, by statement
\* The statements of the calls on the table as the callers interleave them.  The
\* connection runs one statement at a time; nothing groups the statements of a call.
DBCalls == {"GetEntryForDate", "IncrementActiveTimeForDate", "SetPauseStateForDate"}

\* What each caller calls: the tick increments and reloads, the pause handlers set
\* the flag, ForceIncrement increments.
CallsOf(p) ==
    IF p = "tick" THEN {"GetEntryForDate", "IncrementActiveTimeForDate"}
    ELSE IF p = "pause" THEN {"SetPauseStateForDate"}
    ELSE {"IncrementActiveTimeForDate"}

\* A caller enters a call for today's date.  The tick and the pause handlers hold
\* the detector's mutex for the whole call; ForceIncrement takes no lock.
Call(p, op, paused) ==
    /\ calls[p] = Idle
    /\ op \in CallsOf(p)
    /\ p = "tick" => calls["pause"] = Idle
    /\ p = "pause" => calls["tick"] = Idle
    /\ Minutes(db, today) < MaxMinutes
    /\ calls' = [calls EXCEPT ![p] = [pc |-> "select", op |-> op, date |-> today,
                                      paused |-> paused]]
    /\ UNCHANGED <<today, db, trackerVars, alVars, ticks, auxVars, lastOp>>

\* The call has its entry: GetEntryForDate returns it, the others go on to their UPDATE.
haveEntry(p) ==
    IF calls[p].op = "GetEntryForDate"
    THEN /\ calls' = [calls EXCEPT ![p] = Idle]
         /\ lastOp' = DoneWith(calls[p].op, FALSE, EntryOf(db, calls[p].date))
    ELSE /\ calls' = [calls EXCEPT ![p].pc = "update"]
         /\ UNCHANGED lastOp

\* GetEntryForDate's SELECT ... WHERE date = ?: no row sends the call to createEntryForDate.
QueryRow(p) ==
    /\ calls[p].pc = "select"
    /\ IF db[calls[p].date] # NoRow
       THEN haveEntry(p)
       ELSE /\ calls' = [calls EXCEPT ![p].pc = "insert"]
            /\ UNCHANGED lastOp
    /\ UNCHANGED <<today, db, trackerVars, alVars, ticks, auxVars>>

\* createEntryForDate's INSERT: date is UNIQUE, so the INSERT of a date that has a
\* row by now fails and the call returns the error.
ExecInsert(p) ==
    /\ calls[p].pc = "insert"
    /\ IF db[calls[p].date] # NoRow
       THEN /\ calls' = [calls EXCEPT ![p] = Idle]
            /\ lastOp' = Done(calls[p].op, TRUE)
            /\ UNCHANGED db
       ELSE /\ db' = [db EXCEPT ![calls[p].date] = NewRow]
            /\ calls' = [calls EXCEPT ![p].pc = "selectid"]
            /\ UNCHANGED lastOp
    /\ UNCHANGED <<today, trackerVars, alVars, ticks, auxVars>>

\* createEntryForDate's GetEntryByID of the row it inserted.
QueryRowByID(p) ==
    /\ calls[p].pc = "selectid"
    /\ haveEntry(p)
    /\ UNCHANGED <<today, db, trackerVars, alVars, ticks, auxVars>>

\* The UPDATE of IncrementActiveTimeForDate or of SetPauseStateForDate.
ExecUpdate(p) ==
    /\ calls[p].pc = "update"
    /\ LET date == calls[p].date
       IN  db' = IF calls[p].op = "SetPauseStateForDate"
                 THEN [db EXCEPT ![date].paused = calls[p].paused]
                 ELSE IF db[date].paused THEN db
                 ELSE [db EXCEPT ![date].minutes = @ + 1]
    /\ calls' = [calls EXCEPT ![p] = Idle]
    /\ lastOp' = DoneWith(calls[p].op, FALSE, EntryOf(db', calls[p].date))
    /\ UNCHANGED <<today, trackerVars, alVars, ticks, auxVars>>

\* The callers' statements in any order, across midnight.
NextConc ==
    \/ \E p \in Callers, op \in DBCalls, paused \in BOOLEAN : Call(p, op, paused)
    \/ \E p \in Callers : QueryRow(p)
    \/ \E p \in Callers : ExecInsert(p)
    \/ \E p \in Callers : QueryRowByID(p)
    \/ \E p \in Callers : ExecUpdate(p)
    \/ Midnight

SpecConc == Init /\ [][NextConc]_vars

\* C10: every call on the table returns without an error.
C10_EveryCallSucceeds ==
    lastOp.op \in DBCalls => ~lastOp.err

\* ------------------------------------------------------------ api.AutoLogger (service)
\* What CreateTimeEntry can answer: accepted, or one of the errors.
Outcomes == {"ok", "AuthError", "RateLimitError", "TransportError", "ValidationError"}

\* markAsLogged's note: response.Data when it is a string, else response.Message.
Notes == {MsgNote, BodyNote}

\* processLoop at its select: "idle" while stopChan is open (only a request can wake
\* it), "draining" once stopChan is closed (the select may return, or take a request
\* when one is queued).
AtSelect == [pc |-> IF stopChan.logger = "closed" THEN "draining" ELSE "idle"]

\* Start: initializeAPIs (every enabled client, an error when there is none), then
\* the worker goroutine.
ALStart ==
    /\ ~alRunning
    /\ worker.pc \in {"idle", "exited"}
    /\ apis' = config.enabled
    /\ alRunning' = (config.enabled # {})
    /\ worker' = IF config.enabled # {} THEN AtSelect ELSE worker
    /\ lastOp' = Done("ALStart", config.enabled = {})
    /\ UNCHANGED <<today, db, trackerVars, config, logChan, created, sideVars>>

\* The entries a caller can hold: GetCurrentEntry's copy of the cache, and the rows
\* GetRecentEntries reads.
Handouts ==
    {currentEntry} \cup {EntryOf(db, date) : date \in {x \in Dates : db[x] # NoRow}}

\* The whole of CheckAndLog: it returns at once when the entry is not due, else it
\* offers the job to the channel; lastOp.err records the "queue is full" warning.
CheckAndLogCall(entry) ==
    /\ logChan' = checkAndLog(logChan, entry)
    /\ lastOp' = DoneWith("CheckAndLog",
                          ShouldAutoLog(entry) /\ Len(logChan) >= LogChanCap, entry)
    /\ UNCHANGED <<today, db, trackerVars, config, apis, alRunning, worker, created, sideVars>>

\* The whole of ForceLog: the job is offered whatever the entry's minutes and its
\* AutoLogged flag; lastOp.err records the "queue is full" warning.
ForceLogCall(entry) ==
    /\ entry # Nil
    /\ logChan' = Send(logChan, LogRequest(entry, TRUE))
    /\ lastOp' = DoneWith("ForceLog", Len(logChan) >= LogChanCap, entry)
    /\ UNCHANGED <<today, db, trackerVars, config, apis, alRunning, worker, created, sideVars>>

\* CheckAndLog called by the application, while the queue is short.
CheckAndLog(entry) ==
    /\ Len(logChan) < MaxQueue
    /\ CheckAndLogCall(entry)

\* ForceLog called by the application, while the queue is short.
ForceLog(entry) ==
    /\ Len(logChan) < MaxQueue
    /\ ForceLogCall(entry)

\* A variant that applies the threshold and the AutoLogged flag to forced jobs too.
skipRequest_IgnoresForce(request) ==
    request.entry.autoLogged \/ ~ShouldAutoLog(request.entry)

\* processLogRequest's skip: !request.Force && (entry.AutoLogged || !al.ShouldAutoLog(entry)),
\* decided on the entry the request carries.
skipRequest(request) ==
    ~request.force /\ (request.entry.autoLogged \/ ~ShouldAutoLog(request.entry))

\* A variant that does not remember what it has called: every initialised backend
\* is up again after a failure.
nextAPIs_Forgets(tried) ==
    IF tried = {} /\ config.preferred \in apis THEN {config.preferred} ELSE apis

\* The backends processLogRequest may call next: the preferred one first when it is
\* initialised, then the others in the order of Go's map iteration (any order).
nextAPIs(tried) ==
    IF config.preferred \in apis /\ config.preferred \notin tried
    THEN {config.preferred}
    ELSE (apis \ tried) \ {config.preferred}

\* logToAPI before the call: when the time entry of the job has no workspace or
\* project reference yet, addAPISpecificIDs fills in those configured for the backend
\* (named here by the backend); references it already has are left as they are.
addAPISpecificIDs(name, ids) == IF ids = "" THEN name ELSE ids

\* processLoop receives a request; processLogRequest returns at once when it skips it;
\* else NewTimeEntry makes the time entry of the job, without references.
WorkerDequeue ==
    /\ IF worker.pc = "idle" THEN alRunning ELSE worker.pc = "draining"
    /\ logChan # <<>>
    /\ LET request == Head(logChan)
       IN  /\ logChan' = Tail(logChan)
           /\ worker' = IF skipRequest(request) \/ nextAPIs({}) = {}
                         THEN AtSelect
                         ELSE [pc |-> "submitting", request |-> request, tried |-> {},
                               ids |-> ""]
           /\ lastOp' = DoneWith("WorkerDequeue", FALSE, request.entry)
    /\ UNCHANGED <<today, db, trackerVars, config, apis, alRunning, created, sideVars>>

\* logToAPI on the next backend.  Accepted: markAsLogged and return.  Refused: go on
\* with the next backend, or give up when none is left.
WorkerCallAPI(name, outcome, note, fault) ==
    /\ worker.pc = "submitting"
    /\ name \in nextAPIs(worker.tried)
    /\ LET date == worker.request.entry.date
           tried == worker.tried \cup {name}
           mark == MarkAsAutoLogged(db, date, note, fault)
           first == IF worker.tried = {} THEN name ELSE lastJob.first
           result == IF outcome = "ok" THEN "logged"
                     ELSE IF nextAPIs(tried) = {} THEN "failed" ELSE "running"
       IN  /\ lastJob' = [date |-> date, first |-> first, result |-> result]
           /\ IF outcome = "ok"
              THEN /\ created' = [created EXCEPT ![date] = IF @ < MaxCreated THEN @ + 1 ELSE @]
                   /\ db' = mark.db
                   /\ worker' = AtSelect
                   /\ lastOp' = DoneWith("WorkerCallAPI", mark.err, worker.request.entry)
              ELSE /\ worker' = IF nextAPIs(tried) = {} THEN AtSelect
                                ELSE [worker EXCEPT
                                         !.tried = tried,
                                         !.ids = addAPISpecificIDs(name, worker.ids)]
                   /\ lastOp' = DoneWith("WorkerCallAPI", TRUE, worker.request.entry)
                   /\ UNCHANGED <<db, created>>
    /\ UNCHANGED <<today, trackerVars, config, apis, logChan, alRunning, ticks, calls,
                   meta, callbacks, stopChan, obsVars, lockVars, salRunning>>

Providers == {"magnetic", "clockify"}

\* The AutoLogger's worker.
NextWorker ==
    \/ ALStart
    \/ WorkerDequeue
    \/ \E name \in Providers, outcome \in Outcomes, note \in Notes, fault \in {"none", "update"} :
            WorkerCallAPI(name, outcome, note, fault)

\* The submission service within one day: ticks accrue, the application calls
\* CheckAndLog and ForceLog when it likes with any entry it can hold, the worker drains.
Next ==
    \/ \E fault \in Faults, reading \in Readings : Start(fault, reading)
    \/ \E k \in 1..3, f \in Faults : Tick(k, f, SameDay, FALSE)
    \/ NextWorker
    \/ \E entry \in Handouts : CheckAndLog(entry)
    \/ \E entry \in Handouts : ForceLog(entry)

Spec == Init /\ [][Next]_vars

\* C3: CheckAndLog called with an entry whose AutoLogged flag is true leaves the queue
\* as it was, whatever the minutes of the entry.
C3_SubmittedNeverEnqueued ==
    [][(lastOp'.op = "CheckAndLog" /\ lastOp'.arg # Nil /\ lastOp'.arg.autoLogged) =>
          logChan' = logChan]_vars

\* C3 witness: CheckAndLog has just been called with an entry that is marked
\* AutoLogged and has reached the threshold.
C3_Witness ==
    /\ lastOp.op = "CheckAndLog"
    /\ lastOp.arg # Nil
    /\ lastOp.arg.autoLogged
    /\ lastOp.arg.minutes >= ThresholdMinutes
    /\ alRunning

\* C4: when the worker dequeues a job whose date is marked AutoLogged in the table at
\* that moment, it skips the job: it does not go on to call a backend.
C4_SubmittedIsFinalSkip ==
    [][(/\ lastOp'.op = "WorkerDequeue"
        /\ logChan # <<>>
        /\ db[Head(logChan).entry.date] # NoRow
        /\ db[Head(logChan).entry.date].autoLogged) =>
          worker'.pc = "idle"]_vars

\* ------------------------------------------------------------ any configuration
\* The configurations NewAutoLogger accepts: any preferred_provider (one of the two
\* backends, or a name that is none of them) and any set of enabled backends.
Configs ==
    {[TwoBackendConfig EXCEPT !.preferred = p, !.enabled = e] :
        p \in Providers \cup {"other"}, e \in SUBSET Providers}

InitAnyConfig == \E c \in Configs : InitConfig(c)

\* The note SimpleAutoLogger.logEntry writes for a fallback success: it names the backend.
FallbackNote(name) ==
    IF name = "magnetic" THEN "Successfully logged to Magnetic (fallback)"
    ELSE "Successfully logged to Clockify (fallback)"

\* Forced and threshold jobs under any configuration, within one day and with a
\* database that does not fail outside markAsLogged.
NextFallback ==
    \/ \E reading \in Readings : Start("none", reading)
    \/ Tick(1, "none", SameDay, FALSE)
    \/ NextWorker
    \/ \E entry \in Handouts : CheckAndLog(entry)
    \/ \E entry \in Handouts : ForceLog(entry)

SpecFallback == InitAnyConfig /\ [][NextFallback]_vars

C13_FallbackNoteNamesBackend ==
    [][(/\ lastOp'.op = "WorkerCallAPI"
        /\ ~lastOp'.err
        /\ worker.pc = "submitting"
        /\ worker.tried # {}
        /\ lastJob'.result = "logged") =>
          /\ db'[lastJob'.date] # NoRow
          /\ db'[lastJob'.date].autoLogged
          /\ \E name \in apis \ worker.tried :
                 db'[lastJob'.date].response = FallbackNote(name)]_vars

\* C14: a backend call that fails, whatever the error, changes no record and writes
\* no mark; the worker goes on with a backend it has not called in this job, and
\* when none is left it is idle again, still running, with the queue as it was.
C14_AllFailLeavesUnsubmitted ==
    [][(/\ lastOp'.op = "WorkerCallAPI"
        /\ worker.pc = "submitting"
        /\ lastJob'.result # "logged") =>
          /\ db' = db
          /\ created' = created
          /\ alRunning'
          /\ logChan' = logChan
          /\ IF worker'.pc = "submitting"
             THEN /\ lastJob'.result = "running"
                  /\ worker'.tried # apis
                  /\ worker'.request = worker.request
             ELSE /\ lastJob'.result = "failed"
                  /\ worker' = [pc |-> "idle"]
                  /\ \E name \in apis \ worker.tried :
                         apis \subseteq worker.tried \cup {name}]_vars

\* C14 witness: a job of an unsubmitted record has just failed on both backends and
\* the worker is idle and running.
C14_Witness ==
    /\ lastOp.op = "WorkerCallAPI"
    /\ lastJob # Nil
    /\ lastJob.result = "failed"
    /\ apis = Providers
    /\ worker.pc = "idle"
    /\ alRunning
    /\ db[lastJob.date] # NoRow
    /\ ~db[lastJob.date].autoLogged
    /\ created[lastJob.date] = 0

\* C16: ForceLog of an entry appends a forced job carrying it whatever its minutes
\* and its AutoLogged flag, and the worker that dequeues a forced job goes on to
\* call a backend (when one is initialised) whatever the minutes of the job.
C16_ForceBypassesThreshold ==
    [][/\ lastOp'.op = "ForceLog" =>
              /\ Len(logChan') = Len(logChan) + 1
              /\ SubSeq(logChan', 1, Len(logChan)) = logChan
              /\ logChan'[Len(logChan')].force
              /\ logChan'[Len(logChan')].entry.date = lastOp'.arg.date
              /\ logChan'[Len(logChan')].entry.minutes = lastOp'.arg.minutes
       /\ (lastOp'.op = "WorkerDequeue" /\ logChan # <<>> /\ Head(logChan).force
              /\ apis # {}) =>
              /\ worker'.pc = "submitting"
              /\ worker'.request = Head(logChan)]_vars

\* C16 witness: the worker is about to call a backend for a forced job whose entry
\* is below the threshold.
C16_Witness ==
    /\ lastOp.op = "WorkerDequeue"
    /\ worker.pc = "submitting"
    /\ worker.request.force
    /\ worker.request.entry.minutes < ThresholdMinutes
    /\ ~worker.request.entry.autoLogged

\* The threshold path alone within one day: ticks accrue, the record is paused and
\* resumed, the application calls CheckAndLog when it likes with any entry it can
\* hold, the worker drains; nothing is forced.
NextThreshold ==
    \/ \E fault \in Faults, reading \in Readings : Start(fault, reading)
    \/ \E k \in 1..3, f \in Faults : Tick(k, f, SameDay, FALSE)
    \/ \E fault \in Faults : TogglePause(fault)
    \/ NextWorker
    \/ \E entry \in Handouts : CheckAndLog(entry)

SpecThreshold == Init /\ [][NextThreshold]_vars

\* C1: for every date, at most one CreateTimeEntry call has succeeded.
C1_AtMostOneSubmission == \A date \in Dates : created[date] <= 1

\* C9: no step takes a record that is marked AutoLogged in the table to a record that
\* is not, or removes it.
C9_SubmittedNeverReset ==
    [][\A date \in Dates :
          (db[date] # NoRow /\ db[date].autoLogged) =>
              (db'[date] # NoRow /\ db'[date].autoLogged)]_vars

\* C9 witness: a tick has just accrued a minute on a record that is marked AutoLogged.
C9_Witness ==
    /\ lastOp.op = "Tick"
    /\ lastOp.arg # Nil
    /\ lastOp.arg.autoLogged
    /\ lastOp.arg.minutes > ThresholdMinutes
    /\ db[lastOp.arg.date].autoLogged

\* The engine as the specification wires it: every time update of a tick reaches
\* CheckAndLog, and nothing else enqueues.
NextWired ==
    \/ \E fault \in Faults, reading \in Readings : Start(fault, reading)
    \/ \E reading \in Readings : Poll(reading)
    \/ \E k \in 1..3, f \in Faults, r \in ClockReads : Tick(k, f, r, TRUE)
    \/ \E fault \in Faults : TogglePause(fault)
    \/ Midnight
    \/ NextWorker

SpecWired == Init /\ [][NextWired]_vars

\* C2, as stated: a tick enqueues a job only when it takes the minutes of the job's
\* date from below the threshold to the threshold.
C2_OnlyAtCrossing ==
    [][(lastOp'.op = "Tick" /\ logChan' # logChan) =>
          Minutes(db, lastOp'.arg.date) < ThresholdMinutes]_vars

\* C2, amended: a tick enqueues exactly one job, not forced and carrying the reloaded
\* record, when it incremented and the reloaded record has reached the threshold and
\* is not marked AutoLogged; any other tick leaves the queue as it was.
C2_EnqueueWhileDue ==
    [][lastOp'.op = "Tick" =>
          LET up == lastOp'.arg
          IN  IF up # Nil /\ ~up.autoLogged /\ up.minutes >= ThresholdMinutes
              THEN /\ Len(logChan') = Len(logChan) + 1
                   /\ SubSeq(logChan', 1, Len(logChan)) = logChan
                   /\ ~logChan'[Len(logChan')].force
                   /\ logChan'[Len(logChan')].entry = EntryOf(db', up.date)
                   /\ logChan'[Len(logChan')].entry.minutes = up.minutes
              ELSE logChan' = logChan]_vars

\* C2 witness: the tick that took the minutes to the threshold has just enqueued the
\* job of its date.
C2_Witness ==
    /\ lastOp.op = "Tick"
    /\ lastOp.arg # Nil
    /\ lastOp.arg.minutes = ThresholdMinutes
    /\ ~lastOp.arg.autoLogged
    /\ Len(logChan) = 1
    /\ logChan[1].entry.date = lastOp.arg.date
    /\ logChan[1].entry.minutes = ThresholdMinutes

\* ------------------------------------------------------------ the queue at capacity
\* The producers of the queue while no worker drains it (NewAutoLogger makes the
\* channel, Start has not been called): the tracker accrues minutes while the queue
\* is empty, and the application offers jobs of one kind until the queue is full;
\* at a full queue every offer is made.
SameKind(request) ==
    IF logChan = <<>> THEN TRUE
    ELSE IF Len(logChan) >= LogChanCap THEN TRUE
    ELSE request = logChan[1]

NextQueue ==
    \/ /\ logChan = <<>>
       /\ Start("none", ActiveReading)
    \/ /\ logChan = <<>>
       /\ Tick(1, "none", SameDay, FALSE)
    \/ \E entry \in Handouts :
          /\ SameKind(LogRequest(entry, FALSE))
          /\ CheckAndLogCall(entry)
    \/ \E entry \in Handouts :
          /\ SameKind(LogRequest(entry, TRUE))
          /\ ForceLogCall(entry)

SpecQueue == Init /\ [][NextQueue]_vars

\* C17: the queue never holds more than 100 jobs; a call of CheckAndLog or ForceLog
\* at a full queue completes (it is a step, flagged as a drop) and leaves the queued
\* jobs as they were; at a shorter queue it keeps the queued jobs and appends at
\* most its own job; and at a full queue a call of ForceLog is always possible.
C17_EnqueueNeverBlocks ==
    /\ [](Len(logChan) <= LogChanCap)
    /\ [](Len(logChan) = LogChanCap =>
             ENABLED (\E entry \in Handouts : ForceLogCall(entry)))
    /\ [][lastOp'.op \in {"CheckAndLog", "ForceLog"} =>
            IF Len(logChan) >= LogChanCap
            THEN logChan' = logChan /\ (lastOp'.err \/ lastOp'.op = "CheckAndLog")
            ELSE /\ ~lastOp'.err
                 /\ \/ logChan' = logChan /\ lastOp'.op = "CheckAndLog"
                    \/ /\ Len(logChan') = Len(logChan) + 1
                       /\ SubSeq(logChan', 1, Len(logChan)) = logChan
                       /\ logChan'[Len(logChan')].entry.date = lastOp'.arg.date
                       /\ logChan'[Len(logChan')].force = (lastOp'.op = "ForceLog")]_vars

\* C17 witness: a job was offered to a queue of 100 jobs and dropped.
C17_Witness ==
    /\ Len(logChan) = LogChanCap
    /\ lastOp.op \in {"CheckAndLog", "ForceLog"}
    /\ lastOp.err

\* ------------------------------------------------------------ tracker.Monitor (probe)
\* What one call of CGSessionCopyCurrentDictionary gives: NULL, a dictionary with
\* kCGSessionOnConsoleKey true, or one with the key false or missing.
SessionDicts == {"null", "console", "off"}

\* What CGGetActiveDisplayList does: it fails (displayCount is left as it was, not
\* initialised), or it stores no display or some displays.
DisplayLists == {"fail", "none", "some"}

\* isUserSessionActive: false on NULL, else onConsole.
isUserSessionActive(dict) == dict = "console"

\* isScreenSaverRunning: true on NULL, else !onConsole.
isScreenSaverRunning(dict) == dict # "console"

\* isLidOpen: displayCount > 0, the call's result ignored; `garbage` is what the
\* uninitialised displayCount compares to when the call has failed.
isLidOpen(list, garbage) == IF list = "fail" THEN garbage ELSE list = "some"

\* checkSystemState: the three queries in the code's order, then the composite.
checkSystemState(sdict, vdict, list, garbage) ==
    SystemState(isUserSessionActive(sdict), isScreenSaverRunning(vdict),
                isLidOpen(list, garbage))

\* The signals whose query failed in a check.
failedQueries(sdict, vdict, list) ==
    {x \in {"session", "saver", "lid"} :
        \/ x = "session" /\ sdict = "null"
        \/ x = "saver" /\ vdict = "null"
        \/ x = "lid" /\ list = "fail"}

\* A variant that compares the composite only.
stateChanged_ActiveOnly(old, new) == old.active # new.active

\* updateState's stateChanged: the four fields compared one by one.
stateChanged(old, new) ==
    \/ old.active # new.active
    \/ old.session # new.session
    \/ old.saver # new.saver
    \/ old.lid # new.lid

\* lastOp.arg of a check: the snapshot before it, the callbacks it started and the
\* signals whose query failed.
Checked(op, old, invoked, failed) ==
    [op |-> op, err |-> FALSE,
     arg |-> [old |-> old, invoked |-> invoked, failed |-> failed]]

\* AddStateChangeCallback: append the callback.
AddStateChangeCallback ==
    /\ callbacks < MaxObservers
    /\ callbacks' = callbacks + 1
    /\ lastOp' = Done("AddStateChangeCallback", FALSE)
    /\ UNCHANGED <<today, db, trackerVars, alVars, ticks, calls, meta, lastJob,
                   stopChan, obsVars, lockVars, salRunning>>

\* Monitor.Start: an error when running; else the initial check becomes the current
\* snapshot, no callback is called, and the poll loop starts.
MonitorStart(sdict, vdict, list, garbage) ==
    /\ IF monitorRunning
       THEN /\ lastOp' = Done("MonitorStart", TRUE)
            /\ UNCHANGED <<currentState, monitorRunning>>
       ELSE /\ monitorRunning' = TRUE
            /\ currentState' = checkSystemState(sdict, vdict, list, garbage)
            /\ lastOp' = Checked("MonitorStart", currentState, 0,
                                 failedQueries(sdict, vdict, list))
    /\ UNCHANGED <<today, db, currentEntry, isTracking, alVars, sideVars>>

\* updateState, one turn of monitorLoop: check, swap the snapshot in, and when
\* stateChanged start every registered callback in a goroutine of its own.
updateState(sdict, vdict, list, garbage) ==
    /\ monitorRunning
    /\ stopChan.monitor = "open"
    /\ LET newState == checkSystemState(sdict, vdict, list, garbage)
       IN  /\ currentState' = newState
           /\ lastOp' = Checked("updateState", currentState,
                                IF stateChanged(currentState, newState)
                                THEN callbacks ELSE 0,
                                failedQueries(sdict, vdict, list))
    /\ UNCHANGED <<today, db, currentEntry, isTracking, monitorRunning, alVars, sideVars>>

NextProbe ==
    \/ AddStateChangeCallback
    \/ \E sdict \in SessionDicts, vdict \in SessionDicts, list \in DisplayLists,
          garbage \in BOOLEAN : MonitorStart(sdict, vdict, list, garbage)
    \/ \E sdict \in SessionDicts, vdict \in SessionDicts, list \in DisplayLists,
          garbage \in BOOLEAN : updateState(sdict, vdict, list, garbage)

SpecProbe == Init /\ [][NextProbe]_vars

\* C18: in every snapshot of the monitor, the one NewMonitor builds included,
\* active = session and lid open and not screensaver.
C18_ActiveIsComposite ==
    currentState.active =
        (currentState.session /\ currentState.lid /\ ~currentState.saver)

\* C18 witness: a poll found the session on the console and a display on while the
\* screensaver query said yes, and the snapshot is not active.
C18_Witness ==
    /\ lastOp.op = "updateState"
    /\ currentState.session
    /\ currentState.lid
    /\ currentState.saver
    /\ ~currentState.active

\* C19: a poll starts the registered callbacks exactly when its snapshot differs from
\* the previous one in active, session, screensaver or lid; a poll that finds the
\* same four values starts none.
C19_NotifiedIffChanged ==
    [][lastOp'.op = "updateState" =>
          /\ lastOp'.arg.old = currentState
          /\ lastOp'.arg.invoked =
                 (IF currentState' # currentState THEN callbacks ELSE 0)]_vars

\* C19 witness: a poll changed a sub-signal but not the composite, and the two
\* registered callbacks were started.
C19_Witness ==
    /\ lastOp.op = "updateState"
    /\ lastOp.arg.old.active = currentState.active
    /\ lastOp.arg.old # currentState
    /\ callbacks = MaxObservers
    /\ lastOp.arg.invoked = MaxObservers

\* C20: whenever the query of a signal (session, screensaver or display) fails in a
\* check of the monitor, the snapshot the check yields is not active.
C20_FailedQueryInactive ==
    [][(lastOp'.op \in {"updateState", "MonitorStart"} /\ ~lastOp'.err
          /\ lastOp'.arg.failed # {}) => ~currentState'.active]_vars

\* ------------------------------------------------------------ Start and Stop
\* A panic ends the process: the handler did not return.
Panicked(op) == [op |-> op, err |-> TRUE, arg |-> [panic |-> TRUE]]
Crashed == lastOp.arg = [panic |-> TRUE]

\* Monitor.Stop: nothing when not running; else isRunning = false and
\* close(m.stopChan), which panics on a channel that is already closed.
MonitorStop ==
    /\ IF ~monitorRunning
       THEN /\ lastOp' = Done("MonitorStop", FALSE)
            /\ UNCHANGED <<monitorRunning, stopChan>>
       ELSE /\ monitorRunning' = FALSE
            /\ IF stopChan.monitor = "closed"
               THEN /\ lastOp' = Panicked("MonitorStop")
                    /\ UNCHANGED stopChan
               ELSE /\ stopChan' = [stopChan EXCEPT !.monitor = "closed"]
                    /\ lastOp' = Done("MonitorStop", FALSE)
    /\ UNCHANGED <<today, db, currentEntry, isTracking, currentState, alVars, ticks,
                   calls, quietVars>>

\* ActivityDetector.Start, the call when tracking included: "already running".
StartCall(fault, reading) ==
    IF isTracking
    THEN /\ lastOp' = Done("Start", TRUE)
         /\ UNCHANGED <<today, db, trackerVars, alVars, sideVars>>
    ELSE Start(fault, reading)

\* ActivityDetector.Stop: nothing when not tracking; else isTracking = false,
\* ad.monitor.Stop(), close(ad.stopChan).
Stop ==
    /\ IF ~isTracking
       THEN /\ lastOp' = Done("Stop", FALSE)
            /\ UNCHANGED <<isTracking, monitorRunning, stopChan>>
       ELSE /\ isTracking' = FALSE
            /\ monitorRunning' = FALSE
            /\ IF monitorRunning /\ stopChan.monitor = "closed"
               THEN /\ lastOp' = Panicked("Stop")
                    /\ UNCHANGED stopChan
               ELSE IF stopChan.detector = "closed"
               THEN /\ lastOp' = Panicked("Stop")
                    /\ stopChan' = IF monitorRunning
                                   THEN [stopChan EXCEPT !.monitor = "closed"]
                                   ELSE stopChan
               ELSE /\ lastOp' = Done("Stop", FALSE)
                    /\ stopChan' = [stopChan EXCEPT
                                       !.detector = "closed",
                                       !.monitor = IF monitorRunning THEN "closed" ELSE @]
    /\ UNCHANGED <<today, db, currentEntry, currentState, alVars, ticks, calls,
                   quietVars>>

\* trackingLoop's select receives from ticker.C: the loop is about to call
\* processMinuteIncrement, which starts by waiting for the detector's mutex.
TickerFires ==
    /\ isTracking
    /\ stopChan.detector = "open"
    /\ calls["tick"] = Idle
    /\ \A date \in Dates : Minutes(db, date) < MaxMinutes
    /\ calls' = [calls EXCEPT !["tick"] = [pc |-> "fired"]]
    /\ lastOp' = Done("TickerFires", FALSE)
    /\ UNCHANGED <<today, db, trackerVars, alVars, ticks, auxVars>>

\* processMinuteIncrement gets the mutex and runs; it looks at neither isTracking
\* nor stopChan.
ProcessFired ==
    /\ calls["tick"] = [pc |-> "fired"]
    /\ runTick(1, "none", SameDay, FALSE)
    /\ calls' = [calls EXCEPT !["tick"] = Idle]
    /\ UNCHANGED ticks

\* Any sequence of Start and Stop calls on the detector and on a monitor, with ticks
\* in between, for as long as the process lives.
NextStop ==
    \/ \E fault \in {"none", "select"}, reading \in Readings :
          ~Crashed /\ StartCall(fault, reading)
    \/ ~Crashed /\ Stop
    \/ \E list \in DisplayLists :
          ~Crashed /\ MonitorStart("console", "console", list, FALSE)
    \/ ~Crashed /\ MonitorStop
    \/ ~Crashed /\ TickerFires
    \/ ~Crashed /\ ProcessFired

SpecStop == Init /\ [][NextStop]_vars

\* C21: a Stop of the monitor or of the detector returns without a fault in every
\* state that Start and Stop calls reach, leaves the component not running, and
\* changes nothing when the component is already stopped.
C21_StopIdempotent ==
    [][/\ lastOp'.op = "MonitorStop" =>
              /\ lastOp'.arg # [panic |-> TRUE]
              /\ ~monitorRunning'
              /\ ~monitorRunning => (stopChan' = stopChan /\ isTracking' = isTracking)
       /\ lastOp'.op = "Stop" =>
              /\ lastOp'.arg # [panic |-> TRUE]
              /\ ~isTracking'
              /\ ~isTracking => (stopChan' = stopChan /\ monitorRunning' = monitorRunning)]_vars

\* C33: a tick that runs when Stop has returned and the detector has not been started
\* again increments nothing in the table, leaves the cached entry as it is and hands
\* nothing to the observers.
C33_NoTickAfterStop ==
    [][(lastOp'.op = "Tick" /\ ~isTracking) =>
          (db' = db /\ currentEntry' = currentEntry /\ handed' = handed)]_vars

\* C34: a Start that succeeds right after a Stop leaves the detector tracking with
\* the channels its tick loop and the monitor's poll loop select on open, so that
\* ticks and polls occur again.
C34_RestartRunsLoops ==
    [][(lastOp.op = "Stop" /\ lastOp'.op = "Start" /\ ~lastOp'.err) =>
          /\ isTracking'
          /\ stopChan'.detector = "open"
          /\ stopChan'.monitor = "open"]_vars

\* C35: a Start that fails on a detector whose monitor was not running leaves the
\* monitor not running and the detector not tracking.
C35_FailedStartLeavesNothing ==
    [][(lastOp'.op = "Start" /\ lastOp'.err /\ ~isTracking /\ ~monitorRunning) =>
          (~monitorRunning' /\ ~isTracking')]_vars

\* ------------------------------------------------------------ observers and handed-out entries
\* ActivityDetector.AddStateChangeCallback: append the callback.
AddObserver ==
    /\ observers < MaxObservers
    /\ observers' = observers + 1
    /\ lastOp' = Done("AddObserver", FALSE)
    /\ UNCHANGED <<today, db, trackerVars, alVars, ticks, calls, meta, callbacks, lastJob,
                   stopChan, handed, lockVars, salRunning>>

\* GetCurrentEntry: nil when there is no entry, else a pointer to a copy of it.
GetCurrentEntry ==
    /\ handed' = IF currentEntry = Nil THEN handed
                  ELSE Append(handed, Handout(0, currentEntry, FALSE, TRUE))
    /\ lastOp' = DoneWith("GetCurrentEntry", FALSE, currentEntry)
    /\ UNCHANGED <<today, db, trackerVars, alVars, ticks, calls, stillVars>>

\* The goroutine of a notification gets to run: its callback is invoked.
RunCallback(i) ==
    /\ ~handed[i].run
    /\ handed' = [handed EXCEPT ![i].run = TRUE]
    /\ lastOp' = [op |-> "RunCallback", err |-> FALSE, arg |-> [index |-> i]]
    /\ UNCHANGED <<today, db, trackerVars, alVars, ticks, calls, stillVars>>

\* The holder of a handed-out entry writes entry.IsPaused = true through its
\* pointer; when the pointer is the cache's, the cache and every other holder of
\* that object see the write.
RecipientWrites(i) ==
    /\ handed[i].run
    /\ ~handed[i].entry.paused
    /\ LET written == [handed[i].entry EXCEPT !.paused = TRUE]
       IN  IF handed[i].live
           THEN /\ currentEntry' = written
                /\ handed' = WriteThrough(handed, written)
           ELSE /\ handed' = [handed EXCEPT ![i].entry = written]
                /\ UNCHANGED currentEntry
    /\ lastOp' = [op |-> "RecipientWrites", err |-> FALSE, arg |-> [index |-> i]]
    /\ UNCHANGED <<today, db, isTracking, currentState, monitorRunning, alVars, ticks,
                   calls, stillVars>>

\* The handlers of a tracking detector with observers registered, the goroutines of
\* the notifications and the holders of the entries, while at most MaxHanded entries
\* are followed; persistence works throughout.
NextObservers ==
    \/ AddObserver
    \/ Start("none", ActiveReading)
    \/ \E r \in ClockReads :
          /\ Len(handed) + 2 * observers <= MaxHanded
          /\ Tick(1, "none", r, FALSE)
    \/ /\ Len(handed) + observers <= MaxHanded
       /\ TogglePause("none")
    \/ \E paused \in BOOLEAN :
          /\ Len(handed) + observers <= MaxHanded
          /\ SetPause(paused, "none")
    \/ /\ Len(handed) < MaxHanded
       /\ GetCurrentEntry
    \/ \E i \in 1..Len(handed) : RunCallback(i)
    \/ \E i \in 1..Len(handed) : RecipientWrites(i)

SpecObservers == Init /\ [][NextObservers]_vars

\* C22: when a TogglePause or SetPause call that changed the pause state returns,
\* the new flag is in the row of the cached date and in the cache, and every
\* registered observer has been invoked with an entry that carries the new flag.
C22_PauseNotifiedBeforeReturn ==
    [][(lastOp'.op \in {"TogglePause", "SetPause"} /\ ~lastOp'.err
          /\ currentEntry'.paused # currentEntry.paused) =>
          /\ db'[currentEntry'.date].paused = currentEntry'.paused
          /\ \A o \in 1..observers :
                \E i \in 1..Len(handed') :
                    /\ i > Len(handed)
                    /\ handed'[i].to = o
                    /\ handed'[i].entry.paused = currentEntry'.paused
                    /\ handed'[i].run]_vars

\* C23: a step of the engine never changes an entry that was handed out before it,
\* and a write by the holder of a handed-out entry never changes the cache.
C23_HandedOutAreCopies ==
    [][/\ lastOp'.op # "RecipientWrites" =>
              \A i \in 1..Len(handed) : handed'[i].entry = handed[i].entry
       /\ lastOp'.op = "RecipientWrites" => currentEntry' = currentEntry]_vars

\* C24: an observer's callback is never invoked for a later notification while an
\* earlier notification to the same observer has not been invoked.
C24_NotifiedInOrder ==
    \A i \in 1..Len(handed), j \in 1..Len(handed) :
        (i < j /\ handed[i].to = handed[j].to /\ handed[j].run) => handed[i].run

\* ------------------------------------------------------------ starting the auto-logging service
\* SimpleAutoLogger.Start: an error when running; testAPIConnections builds a client
\* for each enabled and keyed backend and fails only when a client cannot be built
\* (`broken`: the backends whose NewClient fails); then isRunning = true.
SALStart(broken) ==
    /\ IF salRunning
       THEN /\ lastOp' = Done("SALStart", TRUE)
            /\ UNCHANGED salRunning
       ELSE /\ salRunning' = (config.enabled \cap broken = {})
            /\ lastOp' = Done("SALStart", config.enabled \cap broken # {})
    /\ UNCHANGED <<today, db, trackerVars, alVars, ticks, calls, meta, callbacks, lastJob,
                   stopChan, obsVars, lockVars>>

\* UpdateConfig: al.config and al.thresholdHours are assigned, then initializeAPIs
\* empties al.apis and fills it with the clients the new configuration enables; its
\* error (no client) is returned.
UpdateConfig(newConfig) ==
    /\ config' = newConfig
    /\ apis' = newConfig.enabled
    /\ lastOp' = Done("UpdateConfig", newConfig.enabled = {})
    /\ UNCHANGED <<today, db, trackerVars, logChan, alRunning, worker, created, sideVars>>

\* Both services started under every configuration, with jobs queued and drained,
\* and the configuration replaced at any time.
NextStart ==
    \/ ALStart
    \/ \E newConfig \in Configs : UpdateConfig(newConfig)
    \/ \E broken \in SUBSET Providers : SALStart(broken)
    \/ Start("none", ActiveReading)
    \/ Tick(1, "none", SameDay, FALSE)
    \/ \E entry \in Handouts : CheckAndLog(entry)
    \/ WorkerDequeue
    \/ \E name \in Providers, outcome \in {"ok", "AuthError"} :
          WorkerCallAPI(name, outcome, MsgNote, "none")

SpecStart == InitAnyConfig /\ [][NextStart]_vars

\* C25: with no backend enabled, a Start of the auto-logging service (AutoLogger or
\* SimpleAutoLogger) returns an error and leaves the service not running, with no
\* worker started.
C25_StartFailsWithoutBackend ==
    [][(config.enabled = {} /\ lastOp'.op \in {"ALStart", "SALStart"}) =>
          /\ lastOp'.err
          /\ ~alRunning'
          /\ ~salRunning'
          /\ worker' = [pc |-> "idle"]]_vars

\* C26: a tick, failed or not, leaves isTracking true and the loop's channel open;
\* and the tick right after a tick that failed on persistence, when it hits no
\* failure itself while the probe is active, the cached entry unpaused and no row
\* paused, adds one minute to exactly one date.
C26_TickFailureDoesNotHalt ==
    [][lastOp'.op = "Tick" =>
          /\ isTracking'
          /\ stopChan'.detector = "open"
          /\ (/\ lastOp.op = "Tick"
              /\ lastOp.err
              /\ ~lastOp'.err
              /\ currentState.active
              /\ ~currentEntry.paused
              /\ \A date \in Dates : db[date] = NoRow \/ ~db[date].paused) =>
                 \E date \in Dates :
                     /\ Minutes(db', date) = Minutes(db, date) + 1
                     /\ \A other \in Dates \ {date} :
                            Minutes(db', other) = Minutes(db, other)]_vars

\* C26 witness: a tick has just failed on persistence; the detector is still
\* tracking, with the probe active and the cached entry unpaused, so the next
\* tick is due to increment.
C26_Witness ==
    /\ lastOp.op = "Tick"
    /\ lastOp.err
    /\ isTracking
    /\ stopChan.detector = "open"
    /\ currentState.active
    /\ ~currentEntry.paused
    /\ \A date \in Dates : Minutes(db, date) < MaxMinutes

\* ------------------------------------------------------------ the goal of a new record
\* Any goal_time_hours the validation accepts (greater than 0).
InitAnyGoal ==
    \E hours \in 1..MaxGoalHours :
        InitConfig([TwoBackendConfig EXCEPT !.goalHours = hours])

\* NewTimer: ActivityConfig.GoalMinutes = config.General.GoalTimeHours * 60.
GoalMinutes == config.goalHours * 60

\* Records created by GetEntryForDate, by Start and by the tick, over two days.
NextGoal ==
    \/ \E date \in Dates : EnsureEntry(date)
    \/ \E reading \in Readings : Start("none", reading)
    \/ \E r \in ClockReads : Tick(1, "none", r, FALSE)
    \/ TogglePause("none")
    \/ Midnight

SpecGoal == InitAnyGoal /\ [][NextGoal]_vars

\* C27: a record created for a date that had none has 0 minutes, the configured
\* goal (GoalTimeHours x 60 minutes), and is neither paused nor submitted.
C27_NewRecordHasConfiguredGoal ==
    [][\A date \in Dates :
          (db[date] = NoRow /\ db'[date] # NoRow) =>
              /\ db'[date].minutes \in {0, 1}
              /\ db'[date].minutes = 1 => lastOp'.op = "Tick"
              /\ db'[date].goal = GoalMinutes
              /\ ~db'[date].paused
              /\ ~db'[date].autoLogged]_vars

\* ------------------------------------------------------------ instance.Lock
\* Everything but the lock file and the processes around it.
nonLockVars == <<today, db, trackerVars, alVars, ticks, calls, meta, callbacks, lastJob,
                 stopChan, obsVars, salRunning, goroutines>>

\* A step of process p in TryLock or Release: its new position and descriptors.
LockStep(p, op, err, pc, fd, lockFile) ==
    /\ procs' = [procs EXCEPT ![p] = [pc |-> pc, fd |-> fd, lockFile |-> lockFile]]
    /\ lastOp' = [op |-> op, err |-> err, arg |-> [proc |-> p]]
    /\ UNCHANGED nonLockVars

\* The inode a new file gets: one the path does not name and no process has open.
FreeInode ==
    CHOOSE i \in Inodes :
        /\ i # lockPath
        /\ \A q \in Procs : procs[q].fd # i /\ procs[q].lockFile # i
        /\ \A j \in Inodes :
              (j # lockPath /\ \A q \in Procs : procs[q].fd # j /\ procs[q].lockFile # j)
                  => i <= j

\* TryLock is called by a process that does not hold the lock.
TryLock(p) ==
    /\ procs[p].pc = "idle"
    /\ procs[p].lockFile = 0
    /\ LockStep(p, "TryLock", FALSE, "start", 0, 0)
    /\ UNCHANGED <<lockPath, flocks>>

\* os.OpenFile(lockPath, O_CREATE|O_WRONLY|O_EXCL): the file is created when the
\* path names none; else os.IsExist and checkExistingLock is entered.
OpenExcl(p) ==
    /\ procs[p].pc = "start"
    /\ IF lockPath = 0
       THEN /\ lockPath' = FreeInode
            /\ LockStep(p, "OpenExcl", FALSE, "created", FreeInode, 0)
       ELSE /\ LockStep(p, "OpenExcl", FALSE, "exists", 0, 0)
            /\ UNCHANGED lockPath
    /\ UNCHANGED flocks

\* syscall.Flock(LOCK_EX|LOCK_NB) on the file just created: on success the PID is
\* written and l.lockFile set; on EWOULDBLOCK the file is closed and
\* os.Remove(l.lockPath) removes whatever the path names.
FlockCreated(p) ==
    /\ procs[p].pc = "created"
    /\ IF flocks[procs[p].fd] = 0
       THEN /\ flocks' = [flocks EXCEPT ![procs[p].fd] = p]
            /\ LockStep(p, "FlockCreated", FALSE, "idle", 0, procs[p].fd)
            /\ UNCHANGED lockPath
       ELSE /\ lockPath' = 0
            /\ LockStep(p, "FlockCreated", TRUE, "idle", 0, 0)
            /\ UNCHANGED flocks

\* checkExistingLock's os.OpenFile(lockPath, O_RDWR): when the file has disappeared
\* TryLock is called again.
OpenExisting(p) ==
    /\ procs[p].pc = "exists"
    /\ IF lockPath = 0
       THEN LockStep(p, "OpenExisting", FALSE, "start", 0, 0)
       ELSE LockStep(p, "OpenExisting", FALSE, "opened", lockPath, 0)
    /\ UNCHANGED <<lockPath, flocks>>

\* checkExistingLock's Flock(LOCK_EX|LOCK_NB): EWOULDBLOCK means another instance is
\* running (the call fails); success means the file is taken for stale.
FlockExisting(p) ==
    /\ procs[p].pc = "opened"
    /\ IF flocks[procs[p].fd] = 0
       THEN /\ flocks' = [flocks EXCEPT ![procs[p].fd] = p]
            /\ LockStep(p, "FlockExisting", FALSE, "stale", procs[p].fd, 0)
       ELSE /\ LockStep(p, "FlockExisting", TRUE, "idle", 0, 0)
            /\ UNCHANGED flocks
    /\ UNCHANGED lockPath

\* checkExistingLock's Flock(LOCK_UN) and Close of the stale file.
UnlockStale(p) ==
    /\ procs[p].pc = "stale"
    /\ flocks' = [flocks EXCEPT ![procs[p].fd] = 0]
    /\ LockStep(p, "UnlockStale", FALSE, "removing", 0, 0)
    /\ UNCHANGED lockPath

\* checkExistingLock's os.Remove(l.lockPath), then TryLock again.
RemoveStale(p) ==
    /\ procs[p].pc = "removing"
    /\ lockPath' = 0
    /\ LockStep(p, "RemoveStale", FALSE, "start", 0, 0)
    /\ UNCHANGED flocks

\* Release's Flock(LOCK_UN) and Close.
Release(p) ==
    /\ procs[p].pc = "idle"
    /\ procs[p].lockFile # 0
    /\ flocks' = [flocks EXCEPT ![procs[p].lockFile] = 0]
    /\ LockStep(p, "Release", FALSE, "releasing", 0, procs[p].lockFile)
    /\ UNCHANGED lockPath

\* Release's os.Remove(l.lockPath) and l.lockFile = nil.
RemoveOwn(p) ==
    /\ procs[p].pc = "releasing"
    /\ lockPath' = 0
    /\ LockStep(p, "RemoveOwn", FALSE, "idle", 0, 0)
    /\ UNCHANGED flocks

\* A process that holds the lock dies without Release: the kernel drops its flock,
\* the file stays; the process is started anew.
Dies(p) ==
    /\ procs[p].pc = "idle"
    /\ procs[p].lockFile # 0
    /\ flocks' = [flocks EXCEPT ![procs[p].lockFile] = 0]
    /\ LockStep(p, "Dies", FALSE, "idle", 0, 0)
    /\ UNCHANGED lockPath

\* The processes of the machine, each at its own pace.
NextLock ==
    \/ \E p \in Procs : TryLock(p)
    \/ \E p \in Procs : OpenExcl(p)
    \/ \E p \in Procs : FlockCreated(p)
    \/ \E p \in Procs : OpenExisting(p)
    \/ \E p \in Procs : FlockExisting(p)
    \/ \E p \in Procs : UnlockStale(p)
    \/ \E p \in Procs : RemoveStale(p)
    \/ \E p \in Procs : Release(p)
    \/ \E p \in Procs : RemoveOwn(p)
    \/ \E p \in Procs : Dies(p)

SpecLock == Init /\ [][NextLock]_vars

\* C28: at no time do two processes both hold the lock, that is, both have had a
\* TryLock succeed and not yet called Release.
C28_OneHolder ==
    \A p \in Procs, q \in Procs :
        (/\ procs[p].lockFile # 0 /\ procs[p].pc = "idle"
         /\ procs[q].lockFile # 0 /\ procs[q].pc = "idle") => p = q

\* ------------------------------------------------------------ the worker around Stop
\* AutoLogger.Stop: nothing when not running; else isRunning = false and
\* close(al.stopChan), which panics on a channel that is already closed.  A loop
\* waiting at its select now sees the closed channel.
ALStop ==
    /\ IF ~alRunning
       THEN /\ lastOp' = Done("ALStop", FALSE)
            /\ UNCHANGED <<alRunning, stopChan, worker>>
       ELSE /\ alRunning' = FALSE
            /\ IF stopChan.logger = "closed"
               THEN /\ lastOp' = Panicked("ALStop")
                    /\ UNCHANGED <<stopChan, worker>>
               ELSE /\ stopChan' = [stopChan EXCEPT !.logger = "closed"]
                    /\ worker' = IF worker.pc = "idle" THEN [pc |-> "draining"] ELSE worker
                    /\ lastOp' = Done("ALStop", FALSE)
    /\ UNCHANGED <<today, db, trackerVars, config, apis, logChan, created, ticks, calls,
                   meta, callbacks, lastJob, obsVars, lockVars, salRunning>>

\* processLoop's `case <-al.stopChan: return`.
WorkerExit ==
    /\ worker.pc = "draining"
    /\ worker' = [pc |-> "exited"]
    /\ lastOp' = Done("WorkerExit", FALSE)
    /\ UNCHANGED <<today, db, trackerVars, config, apis, logChan, alRunning, created,
                   sideVars>>

\* A backend answers the worker.
WorkerCall ==
    \E name \in Providers, outcome \in {"ok", "AuthError"} :
        WorkerCallAPI(name, outcome, MsgNote, "none")

\* The service is started once.
FirstStart == stopChan.logger = "open" /\ ALStart

\* One life of the service, started and then stopped, while the tracker accrues and
\* jobs are offered before, between and after.
NextDrain ==
    \/ FirstStart
    \/ ALStop
    \/ WorkerDequeue
    \/ WorkerCall
    \/ WorkerExit
    \/ Start("none", ActiveReading)
    \/ Tick(1, "none", SameDay, FALSE)
    \/ \E entry \in Handouts : CheckAndLog(entry)

\* The scheduler is fair to the worker goroutine, and the application does call Start.
SpecDrain ==
    /\ Init
    /\ [][NextDrain]_vars
    /\ WF_vars(FirstStart)
    /\ WF_vars(WorkerDequeue)
    /\ WF_vars(WorkerCall)

\* C29: a job that is in the queue is eventually taken out of it by the worker.
C29_NoJobQueuedForever ==
    (logChan # <<>>) ~> (logChan = <<>>)

\* ------------------------------------------------------------ the cache and its row
\* C30: when the cached entry agreed with the row of its date, a pause toggle, a pause
\* setting or a tick that returned without an error and wrote to the table leaves the
\* cached entry with the minutes and the pause flag of the row of the cached date.
C30_CacheMatchesPersisted ==
    [][LET agrees(d, entry) ==
               /\ entry # Nil
               /\ d[entry.date] # NoRow
               /\ entry.minutes = d[entry.date].minutes
               /\ entry.paused = d[entry.date].paused
       IN  (/\ lastOp'.op \in {"Tick", "TogglePause", "SetPause"}
            /\ ~lastOp'.err
            /\ db' # db
            /\ agrees(db, currentEntry)) => agrees(db', currentEntry')]_vars

\* ------------------------------------------------------------ the three trigger checks
\* Any auto_log_threshold_hours the validation accepts (greater than 0), in half
\* minutes: 1/120 of an hour and its multiples.
InitAnyThreshold ==
    \E halves \in 1..MaxHalfMinutes :
        InitConfig([TwoBackendConfig EXCEPT !.thresholdHours = [num |-> halves, den |-> 120]])

\* int(hours * 60): the conversion of a float64 to int drops the fraction.
IntMinutes(hours) == (hours.num * 60) \div hours.den

\* DailyTimeEntry.ShouldAutoLog(thresholdHours): thresholdMinutes := int(thresholdHours * 60);
\* !d.AutoLogged && d.ActiveMinutes >= thresholdMinutes.
EntryShouldAutoLog(entry, hours) ==
    ~entry.autoLogged /\ entry.minutes >= IntMinutes(hours)

\* NewTimer: ActivityConfig.AutoLogThresholdMinutes = int(AutoLogThresholdHours * 60).
AutoLogThresholdMinutes == IntMinutes(thresholdHours)

\* The tracker's check after an increment:
\* entry.ShouldAutoLog(float64(ad.config.AutoLogThresholdMinutes) / 60.0).
TrackerShouldAutoLog(entry) ==
    EntryShouldAutoLog(entry, [num |-> AutoLogThresholdMinutes, den |-> 60])

\* GetEntriesNeedingAutoLog: the dates of the rows
\* WHERE auto_logged = FALSE AND active_minutes >= thresholdMinutes.
GetEntriesNeedingAutoLog(d, thresholdMinutes) ==
    {date \in Dates : /\ d[date] # NoRow
                      /\ ~d[date].autoLogged
                      /\ d[date].minutes >= thresholdMinutes}

\* GetStats: EntriesNeedingLog counts GetEntriesNeedingAutoLog(int(al.thresholdHours * 60)).
GetStats ==
    /\ lastOp' = [op |-> "GetStats", err |-> FALSE,
                  arg |-> [needing |-> Cardinality(
                               GetEntriesNeedingAutoLog(db, IntMinutes(thresholdHours)))]]
    /\ UNCHANGED <<today, db, trackerVars, alVars, sideVars>>

\* Records created, accrued and marked under any threshold, with the statistics read
\* at any time.
NextDecision ==
    \/ EnsureEntry(today)
    \/ \E reading \in Readings : Start("none", reading)
    \/ \E r \in ClockReads : Tick(1, "none", r, FALSE)
    \/ MarkSubmitted(today, MsgNote, "none")
    \/ Midnight
    \/ GetStats

SpecDecision == InitAnyThreshold /\ [][NextDecision]_vars

\* C31: for every record and every configured threshold the tracker's check, the
\* queue's check and the persistence query give the same answer.
C31_ChecksAgree ==
    \A date \in Dates :
        db[date] # NoRow =>
            LET entry == EntryOf(db, date)
            IN  /\ TrackerShouldAutoLog(entry) = ShouldAutoLog(entry)
                /\ ShouldAutoLog(entry) =
                       (date \in GetEntriesNeedingAutoLog(db, IntMinutes(thresholdHours)))

\* ------------------------------------------------------------ a mark that fails
\* C32: a date for which a backend has accepted a time entry has a record with
\* auto_logged set, whatever happened to the write of the mark.
C32_AcceptedIsMarked ==
    \A date \in Dates :
        created[date] > 0 => (db[date] # NoRow /\ db[date].autoLogged)

\* ------------------------------------------------------------ the two mutexes
\* A variant that runs onSystemStateChange inside updateState with m.mu held.
updateStateSteps_CallbackUnderLock ==
    << <<"Lock", "m">>, <<"RLock", "ad">>, <<"RUnlock", "ad">>, <<"Unlock", "m">> >>

\* Monitor.updateState, by its lock steps: m.mu is taken for the swap of the snapshot
\* and released before the callbacks are started, each in a goroutine of its own.
updateStateSteps == << <<"Lock", "m">>, <<"Unlock", "m">>, <<"go", "change">> >>

\* The calls of the engine by their steps on ad.mu ("ad") and on the monitor's mu
\* ("m"), in program order.  tracking is isTracking as the call finds it.
Program(call, tracking) ==
    CASE call = "Start" ->
             IF tracking THEN << <<"Lock", "ad">>, <<"Unlock", "ad">> >>
             ELSE << <<"Lock", "ad">>, <<"Lock", "m">>, <<"run", "m">>, <<"Unlock", "m">>,
                     <<"Lock", "m">>, <<"Unlock", "m">>, <<"run", "ad">>,
                     <<"Unlock", "ad">> >>
      [] call = "Stop" ->
             IF ~tracking THEN << <<"Lock", "ad">>, <<"Unlock", "ad">> >>
             ELSE << <<"Lock", "ad">>, <<"Lock", "m">>, <<"halt", "m">>, <<"Unlock", "m">>,
                     <<"halt", "ad">>, <<"Unlock", "ad">> >>
      [] call \in {"TogglePause", "SetPause", "processMinuteIncrement"} ->
             << <<"Lock", "ad">>, <<"RLock", "m">>, <<"RUnlock", "m">>,
                <<"go", "observers">>, <<"Unlock", "ad">> >>
      [] call = "updateState" -> updateStateSteps
      [] call = "onSystemStateChange" ->
             << <<"RLock", "ad">>, <<"RUnlock", "ad">>, <<"go", "observers">> >>
      [] call = "GetCurrentEntry" -> << <<"RLock", "ad">>, <<"RUnlock", "ad">> >>
      [] call = "GetTodayStats" ->
             << <<"RLock", "ad">>, <<"RUnlock", "ad">>,
                <<"RLock", "m">>, <<"RUnlock", "m">> >>

\* A goroutine that runs no call starts one: the application any call of the API
\* (the pause calls once there is an entry), trackingLoop a tick and monitorLoop a
\* poll while they are started and their stopChan is open.
Enter(g, call) ==
    /\ goroutines[g].prog = <<>>
    /\ CASE g = "app" -> call \in {"Start", "Stop", "GetCurrentEntry", "GetTodayStats"}
                          \/ (isTracking /\ call \in {"TogglePause", "SetPause"})
         [] g = "tick" -> /\ call = "processMinuteIncrement"
                          /\ isTracking
                          /\ stopChan.detector = "open"
         [] g = "poll" -> /\ call = "updateState"
                          /\ monitorRunning
                          /\ stopChan.monitor = "open"
         [] OTHER -> FALSE
    /\ goroutines' = [goroutines EXCEPT ![g].prog = Program(call, isTracking)]
    /\ lastOp' = [op |-> call, err |-> FALSE, arg |-> [goroutine |-> g]]
    /\ UNCHANGED <<today, db, trackerVars, alVars, ticks, calls, meta, callbacks, lastJob,
                   stopChan, obsVars, salRunning, lockPath, flocks, procs>>

\* The next step of goroutine g.  Lock waits until nobody holds the mutex; RLock
\* waits while a writer holds it or another goroutine is about to Lock it (a pending
\* Lock keeps new readers out).  `go` starts the goroutines it names and goes on: the
\* monitor's callback runs onSystemStateChange, an observer calls back into the
\* engine with the call that `starts` gives it.
Advance(g, starts) ==
    LET step == Head(goroutines[g].prog)
        kind == step[1]
        mu == step[2]
        me == goroutines[g]
        holders(mode) == {x \in Goroutines : <<mu, mode>> \in goroutines[x].held}
        aboutToLock == {x \in Goroutines \ {g} :
                           /\ goroutines[x].prog # <<>>
                           /\ Head(goroutines[x].prog) = <<"Lock", mu>>}
        free == CASE kind = "Lock" -> holders("w") = {} /\ holders("r") = {}
                  [] kind = "RLock" -> holders("w") = {} /\ aboutToLock = {}
                  [] OTHER -> TRUE
        held == CASE kind = "Lock" -> me.held \cup {<<mu, "w">>}
                  [] kind = "RLock" -> me.held \cup {<<mu, "r">>}
                  [] kind = "Unlock" -> me.held \ {<<mu, "w">>}
                  [] kind = "RUnlock" -> me.held \ {<<mu, "r">>}
                  [] OTHER -> me.held
        started(x) == /\ kind = "go"
                      /\ goroutines[x].prog = <<>>
                      /\ IF mu = "change" THEN x = "change"
                         ELSE x \in {"observer1", "observer2"}
        closing == kind = "halt" /\ stopChan[IF mu = "m" THEN "monitor" ELSE "detector"] = "closed"
    IN  /\ goroutines[g].prog # <<>>
        /\ free
        /\ goroutines' =
              [x \in Goroutines |->
                  IF x = g THEN [prog |-> Tail(me.prog), held |-> held]
                  ELSE IF started(x)
                  THEN [goroutines[x] EXCEPT !.prog =
                           IF x = "change" THEN Program("onSystemStateChange", isTracking)
                           ELSE Program(starts[x], isTracking)]
                  ELSE goroutines[x]]
        /\ isTracking' = IF mu = "ad" /\ kind \in {"run", "halt"} THEN kind = "run"
                         ELSE isTracking
        /\ monitorRunning' = IF mu = "m" /\ kind \in {"run", "halt"} THEN kind = "run"
                             ELSE monitorRunning
        /\ stopChan' = IF kind # "halt" THEN stopChan
                       ELSE IF mu = "m" THEN [stopChan EXCEPT !.monitor = "closed"]
                       ELSE [stopChan EXCEPT !.detector = "closed"]
        /\ lastOp' = IF closing THEN Panicked("Stop")
                     ELSE [op |-> kind, err |-> FALSE, arg |-> [goroutine |-> g]]
        /\ UNCHANGED <<today, db, currentEntry, currentState, alVars, ticks, calls, meta,
                       callbacks, lastJob, obsVars, salRunning, lockPath, flocks, procs>>

\* The goroutines of the engine in any interleaving, for as long as the process lives.
NextMutex ==
    \/ \E g \in {"app", "tick", "poll"},
           call \in {"Start", "Stop", "TogglePause", "SetPause", "GetCurrentEntry",
                     "GetTodayStats", "processMinuteIncrement", "updateState"} :
          ~Crashed /\ Enter(g, call)
    \/ \E g \in Goroutines :
          \E starts \in [{"observer1", "observer2"} ->
                            IF /\ goroutines[g].prog # <<>>
                               /\ Head(goroutines[g].prog) = <<"go", "observers">>
                            THEN {"GetCurrentEntry", "GetTodayStats", "SetPause"}
                            ELSE {"SetPause"}] :
              ~Crashed /\ Advance(g, starts)

SpecMutex == Init /\ [][NextMutex]_vars

\* C36: no two goroutines wait for each other's mutex, and while the process lives
\* and some goroutine is inside a call, some goroutine inside a call can take its
\* next step; a step that starts observers never waits.
C36_NoDeadlock ==
    LET busy == {g \in Goroutines : goroutines[g].prog # <<>>}
        next(g) == Head(goroutines[g].prog)
        holds(g, mu) == <<mu, "w">> \in goroutines[g].held \/ <<mu, "r">> \in goroutines[g].held
        waits(g, mu) == /\ g \in busy
                        /\ next(g)[1] \in {"Lock", "RLock"}
                        /\ next(g)[2] = mu
                        /\ ~ENABLED Advance(g, [o \in {"observer1", "observer2"} |-> "SetPause"])
    IN  /\ ~\E g1, g2 \in Goroutines :
               /\ holds(g1, "ad") /\ waits(g1, "m")
               /\ holds(g2, "m") /\ waits(g2, "ad")
        /\ (busy # {} /\ ~Crashed) =>
               \E g \in busy :
                   ENABLED Advance(g, [o \in {"observer1", "observer2"} |-> "SetPause"])
        /\ \A g \in busy :
               next(g)[1] = "go" =>
                   ENABLED Advance(g, [o \in {"observer1", "observer2"} |-> "SetPause"])

\* C36 witness: the application is inside Stop with ad.mu held and waits for the
\* monitor's mu, which the poll holds, while an observer waits for ad.mu.
C36_Witness ==
    /\ <<"ad", "w">> \in goroutines["app"].held
    /\ goroutines["app"].prog # <<>>
    /\ Head(goroutines["app"].prog) = <<"Lock", "m">>
    /\ <<"m", "w">> \in goroutines["poll"].held
    /\ \E o \in {"observer1", "observer2"} :
           /\ goroutines[o].prog # <<>>
           /\ Head(goroutines[o].prog)[2] = "ad"
           /\ goroutines[o].held = {}

\* ------------------------------------------------------------ references per backend
\* C37: every backend the worker calls for a job is passed the workspace and project
\* references configured for that backend.
C37_OwnReferences ==
    [][lastOp'.op = "WorkerCallAPI" =>
          \A name \in nextAPIs(worker.tried) :
              addAPISpecificIDs(name, worker.ids) = name]_vars

\* ------------------------------------------------------------ a pause across midnight
\* C38: a tick that finds the cached entry paused adds no minute to any date and
\* leaves the cached entry paused, also when it rolls the cache over to a new date,
\* whose record is then paused as well.
C38_PauseSurvivesRollover ==
    [][(lastOp'.op = "Tick" /\ ~lastOp'.err /\ currentEntry # Nil /\ currentEntry.paused) =>
          /\ \A date \in Dates : Minutes(db', date) = Minutes(db, date)
          /\ currentEntry'.paused
          /\ db'[currentEntry'.date].paused]_vars

\* ------------------------------------------------------------ a configuration that fails
\* C39: an UpdateConfig that returns an error leaves the configuration, the threshold
\* and the set of initialised backends as they were.
C39_FailedUpdateChangesNothing ==
    [][(lastOp'.op = "UpdateConfig" /\ lastOp'.err) =>
          (config' = config /\ apis' = apis)]_vars

\* ------------------------------------------------------------ api.SimpleAutoLogger
\* SimpleAutoLogger.CheckAndLog, called by the time-update observer with the entry
\* the tick has just reloaded: nothing when the entry is not due, else
\* `go sal.logEntry(entry)` (g is the goroutine it starts).
SALCheckAndLog(entry, g) ==
    /\ lastOp.op = "Tick"
    /\ entry # Nil
    /\ DoneWith("Tick", FALSE, entry).arg = lastOp.arg
    /\ goroutines[g].prog = <<>>
    /\ goroutines' = IF ~ShouldAutoLog(entry) THEN goroutines
                     ELSE [goroutines EXCEPT ![g].prog =
                              << <<"CreateTimeEntry", entry.date>>,
                                 <<"markAsLogged", entry.date>> >>]
    /\ lastOp' = DoneWith("SALCheckAndLog", FALSE, entry)
    /\ UNCHANGED <<today, db, trackerVars, alVars, ticks, calls, meta, callbacks, lastJob,
                   stopChan, obsVars, salRunning, lockPath, flocks, procs>>

\* logEntry's calls of the backends, preferred one first: accepted by one of them,
\* or refused by all, in which case logEntry returns its error.
SALSubmit(g, accepted) ==
    /\ goroutines[g].prog # <<>>
    /\ Head(goroutines[g].prog)[1] = "CreateTimeEntry"
    /\ LET date == Head(goroutines[g].prog)[2]
       IN  /\ created' = IF accepted
                         THEN [created EXCEPT ![date] = IF @ < MaxCreated THEN @ + 1 ELSE @]
                         ELSE created
           /\ goroutines' = [goroutines EXCEPT ![g].prog =
                                IF accepted THEN Tail(@) ELSE <<>>]
           /\ lastOp' = [op |-> "SALSubmit", err |-> ~accepted, arg |-> [date |-> date]]
    /\ UNCHANGED <<today, db, trackerVars, config, apis, logChan, alRunning, worker, ticks,
                   calls, meta, callbacks, lastJob, stopChan, obsVars, salRunning,
                   lockPath, flocks, procs>>

\* logEntry's markAsLogged after the accepted call; an error of the UPDATE is logged.
SALMark(g, fault) ==
    /\ goroutines[g].prog # <<>>
    /\ Head(goroutines[g].prog)[1] = "markAsLogged"
    /\ LET date == Head(goroutines[g].prog)[2]
           mark == MarkAsAutoLogged(db, date, MsgNote, fault)
       IN  /\ db' = mark.db
           /\ goroutines' = [goroutines EXCEPT ![g].prog = <<>>]
           /\ lastOp' = [op |-> "SALMark", err |-> mark.err, arg |-> [date |-> date]]
    /\ UNCHANGED <<today, trackerVars, alVars, ticks, calls, meta, callbacks, lastJob,
                   stopChan, obsVars, salRunning, lockPath, flocks, procs>>

\* The tracker with SimpleAutoLogger as the observer of its time updates.
NextSimple ==
    \/ \E reading \in Readings : Start("none", reading)
    \/ \E reading \in Readings : Poll(reading)
    \/ \E r \in ClockReads : Tick(1, "none", r, FALSE)
    \/ \E entry \in Handouts, g \in {"logEntry1", "logEntry2"} : SALCheckAndLog(entry, g)
    \/ \E g \in {"logEntry1", "logEntry2"}, accepted \in BOOLEAN : SALSubmit(g, accepted)
    \/ \E g \in {"logEntry1", "logEntry2"}, fault \in {"none", "update"} : SALMark(g, fault)

SpecSimple == Init /\ [][NextSimple]_vars

\* C40: no two logEntry goroutines work on the same date at the same time, and no
\* date is accepted by a backend more than once.
C40_OneSubmissionPerDate ==
    /\ \A g1, g2 \in {"logEntry1", "logEntry2"} :
           (/\ g1 # g2
            /\ goroutines[g1].prog # <<>>
            /\ goroutines[g2].prog # <<>>) =>
               Head(goroutines[g1].prog)[2] # Head(goroutines[g2].prog)[2]
    /\ \A date \in Dates : created[date] <= 1

\* C15: once the latest job of a date has failed on every backend, the queue gains a
\* job of that date only in a tick that incremented the date and whose reloaded
\* record of it has reached the threshold and is not marked AutoLogged (never in a
\* step of the worker or with the passing of time alone), and every such tick does
\* append a job carrying the reloaded record.
C15_RetriggerOnlyByIncrement ==
    [][(lastJob # Nil /\ lastJob.result = "failed") =>
          LET d == lastJob.date
              jobs(q) == Cardinality({i \in 1..Len(q) : q[i].entry.date = d})
              up == lastOp'.arg
              due == /\ lastOp'.op = "Tick"
                     /\ up # Nil
                     /\ up.date = d
                     /\ Minutes(db', d) = Minutes(db, d) + 1
                     /\ up.minutes >= ThresholdMinutes
                     /\ ~up.autoLogged
          IN  /\ jobs(logChan') > jobs(logChan) => due
              /\ due => /\ logChan' = Append(logChan, LogRequest(EntryOf(db', d), FALSE))
                         /\ up.minutes = Minutes(db', d)]_vars

\* C15 witness: the job of a date failed on every backend, nothing was submitted for
\* the date, and the next increment of the date has just enqueued a new job.
C15_Witness ==
    /\ lastOp.op = "Tick"
    /\ lastOp.arg # Nil
    /\ lastJob # Nil
    /\ lastJob.result = "failed"
    /\ lastJob.date = lastOp.arg.date
    /\ created[lastJob.date] = 0
    /\ lastOp.arg.minutes > ThresholdMinutes
    /\ logChan # <<>>
    /\ logChan[Len(logChan)].entry.date = lastJob.date
    /\ logChan[Len(logChan)].entry.minutes = lastOp.arg.minutes

====
